---- MODULE Spec2Model ----
(***************************************************************************)
(* A model of the mask editor: MaskTools (js/tools.js, the variant with    *)
(* the enhanced magnifier), ImageSegmentationApp (js/app.js) and the       *)
(* caching front of ImageSegmentation.segmentImage (js/segmentation.js).   *)
(*                                                                         *)
(* Rasters are Width x Height.  A canvas holds premultiplied 8-bit RGBA;   *)
(* getImageData returns, and putImageData takes, non-premultiplied RGBA.   *)
(* Pointer positions are pixel centres; a stroke or polygon covers a pixel *)
(* when the pixel's centre lies in it (coverage is not antialiased).       *)
(* The overlay canvas and the magnifier only display: they are left out.   *)
(***************************************************************************)
EXTENDS Integers, Sequences, FiniteSets, TLC

\* ------------------------------------------------------------------ bounds
\* every loaded image, and so every canvas, is Width x Height
Width == 2
Height == 1
\* saveState calls explored per MaskTools in Spec and SpecTools
MaxSaves == 3
\* saveState calls explored in SpecHist (beyond maxHistorySize: eviction)
MaxHistSaves == 22
\* setupCanvas calls explored in Spec
MaxLoads == 2
\* saveState and undo calls explored per loaded image in Spec
MaxAppSaves == 2
MaxAppUndos == 1
\* showError calls explored in Spec, SpecClick and SpecHover
MaxErrors == 1
\* saveState calls explored in SpecClick and SpecHover
MaxClickSaves == 3
MaxInvertSaves == 4
SmallWidth == 3
LargeSide == 5
MaxRefineSaves == 4
MaxIterations == 2
MaxPaintSaves == 3
MaxSubtractSaves == 4
MaxEditSaves == 3
\* timeouts set per session in SpecDebounce
MaxTimers == 3
\* SpecCache: pixels of an image, and model.segment calls explored
CacheWidth == 4
\* SpecBrush: how far the arguments of setBrushSize go beyond its limits
BrushMargin == 8
MaxModelCalls == 2
\* SpecSelect: class buffers of SelWidth columns and two rows
SelWidth == 2
\* undo calls that restore a snapshot, explored per MaskTools
MaxUndos == 2
\* vertices collected per lasso polygon in SpecTools
MaxLasso == 2
\* SpecLasso: the canvas is LassoSide x LassoSide, polygons have up to
\* MaxLassoPoints vertices, and up to MaxLassoSaves saveState calls are explored
LassoSide == 2
MaxLassoPoints == 3
MaxLassoSaves == 3

\* ------------------------------------------------------- program constants
maxHistorySize == 20
DefaultBrushSize == 25
MinBrushSize == 5
MaxBrushSize == 200

Tools == {"click", "brush", "erase", "lasso", "lasso-erase"}

Min(a, b) == IF a < b THEN a ELSE b
Max(a, b) == IF a > b THEN a ELSE b
\* integer division rounding to nearest
RDiv(a, b) == (2 * a + b) \div (2 * b)

\* ---------------------------------------------------------- pixels, rasters
\* A raster (a canvas bitmap or an ImageData) is [width, height, data], data
\* mapping the pixel index y * width + x to <<r, g, b, a>>.
PixelsOf(r) == 0 .. (r.width * r.height - 1)
Raster(w, h, f(_)) == [width |-> w, height |-> h, data |-> [p \in 0 .. (w * h - 1) |-> f(p)]]
\* r with every pixel p replaced by f(p)
MapPixels(r, f(_)) == [r EXCEPT !.data = [p \in PixelsOf(r) |-> f(p)]]

Transparent == <<0, 0, 0, 0>>
\* rgba(0, 180, 20, 0.98): alpha 0.98 * 255 rounds to 250
GreenPaint == <<0, 180, 20, 250>>
OpaqueBlack == <<0, 0, 0, 255>>
White == <<255, 255, 255, 255>>

\* non-premultiplied -> premultiplied (what a canvas stores)
Premul(c) ==
    <<RDiv(c[1] * c[4], 255), RDiv(c[2] * c[4], 255), RDiv(c[3] * c[4], 255), c[4]>>

\* premultiplied -> non-premultiplied (what getImageData returns)
Unpremul(q) ==
    IF q[4] = 0 THEN Transparent
    ELSE <<Min(255, RDiv(q[1] * 255, q[4])), Min(255, RDiv(q[2] * 255, q[4])),
           Min(255, RDiv(q[3] * 255, q[4])), q[4]>>

\* ctx.getImageData(0, 0, canvas.width, canvas.height)
GetImageData(canvas) ==
    LET f(p) == Unpremul(canvas.data[p]) IN MapPixels(canvas, f)
\* a canvas of the ImageData's size after ctx.putImageData(img, 0, 0)
PutImageData(img) ==
    LET f(p) == Premul(img.data[p]) IN MapPixels(img, f)
\* ctx.clearRect(0, 0, canvas.width, canvas.height)
ClearRect(canvas) ==
    LET f(p) == Transparent IN MapPixels(canvas, f)
\* a canvas element after its width and height were set: transparent black
BlankCanvas(w, h) ==
    LET f(p) == Transparent IN Raster(w, h, f)

\* Porter-Duff on premultiplied pixels, s the source and d the destination
Fade(d, i, a) == RDiv(d[i] * (255 - a), 255)
SourceOver(s, d) ==
    <<Min(255, s[1] + Fade(d, 1, s[4])), Min(255, s[2] + Fade(d, 2, s[4])),
      Min(255, s[3] + Fade(d, 3, s[4])), Min(255, s[4] + Fade(d, 4, s[4]))>>
DestinationOut(s, d) ==
    <<Fade(d, 1, s[4]), Fade(d, 2, s[4]), Fade(d, 3, s[4]), Fade(d, 4, s[4])>>
Lighter(s, d) ==
    <<Min(255, s[1] + d[1]), Min(255, s[2] + d[2]),
      Min(255, s[3] + d[3]), Min(255, s[4] + d[4])>>

\* ctx.drawImage(src, 0, 0) onto dst under a composite operation; pixels of dst
\* that src does not reach stay as they are
SrcAt(src, dst, p) ==
    LET x == p % dst.width
        y == p \div dst.width
    IN  IF x < src.width /\ y < src.height THEN src.data[y * src.width + x]
        ELSE Transparent
DrawImageLighter(src, dst) ==
    LET f(p) == Lighter(SrcAt(src, dst, p), dst.data[p]) IN MapPixels(dst, f)
DrawImageSourceOver(src, dst) ==
    LET f(p) == SourceOver(SrcAt(src, dst, p), dst.data[p]) IN MapPixels(dst, f)
DrawImageDestinationOut(src, dst) ==
    LET f(p) == DestinationOut(SrcAt(src, dst, p), dst.data[p]) IN MapPixels(dst, f)

\* ----------------------------------------------------------------- geometry
\* Coordinates are in half pixels: pixel (x, y) has its centre at (2x+1, 2y+1).
Centre(r, p) == <<2 * (p % r.width) + 1, 2 * (p \div r.width) + 1>>
\* the pointer positions explored: the centres of the first and the last pixel
Points == {<<1, 1>>, <<2 * Width - 1, 2 * Height - 1>>}
NoPoint == <<-1, -1>>

Dot(u, v) == u[1] * v[1] + u[2] * v[2]
Sub(u, v) == <<u[1] - v[1], u[2] - v[2]>>
Cross(u, v) == u[1] * v[2] - u[2] * v[1]

\* c within distance r of the segment a-b (all in half pixels)
NearSegment(c, a, b, r) ==
    LET ab == Sub(b, a)
        ac == Sub(c, a)
        len2 == Dot(ab, ab)
        t == Dot(ac, ab)
    IN  IF len2 = 0 \/ t <= 0 THEN Dot(ac, ac) <= r * r
        ELSE IF t >= len2 THEN Dot(Sub(c, b), Sub(c, b)) <= r * r
        ELSE Dot(ac, ac) * len2 - t * t <= r * r * len2

\* the pixels a round-capped line of width size (pixels) from a to b covers:
\* those within size / 2 pixels, that is size half pixels, of the segment
StrokeCover(r, a, b, size) ==
    {p \in PixelsOf(r) : NearSegment(Centre(r, p), a, b, size)}

OnEdge(c, a, b) ==
    /\ Cross(Sub(b, a), Sub(c, a)) = 0
    /\ Min(a[1], b[1]) <= c[1] /\ c[1] <= Max(a[1], b[1])
    /\ Min(a[2], b[2]) <= c[2] /\ c[2] <= Max(a[2], b[2])

\* the contribution of edge a->b to the winding number around c
EdgeWinding(c, a, b) ==
    IF a[2] <= c[2] /\ c[2] < b[2] /\ Cross(Sub(b, a), Sub(c, a)) > 0 THEN 1
    ELSE IF b[2] <= c[2] /\ c[2] < a[2] /\ Cross(Sub(b, a), Sub(c, a)) < 0 THEN -1
    ELSE 0

RECURSIVE SumWinding(_, _, _)
SumWinding(c, pts, i) ==
    IF i > Len(pts) THEN 0
    ELSE EdgeWinding(c, pts[i], pts[(i % Len(pts)) + 1]) + SumWinding(c, pts, i + 1)

HasArea(pts) ==
    \E i, j, k \in 1 .. Len(pts) :
        Cross(Sub(pts[j], pts[i]), Sub(pts[k], pts[i])) # 0

\* the pixels the closed path through pts covers when filled (nonzero rule)
PolygonCover(r, pts) ==
    IF ~HasArea(pts) THEN {}
    ELSE {p \in PixelsOf(r) :
            \/ SumWinding(Centre(r, p), pts, 1) # 0
            \/ \E i \in 1 .. Len(pts) :
                   OnEdge(Centre(r, p), pts[i], pts[(i % Len(pts)) + 1])}

\* ------------------------------------------------------------------- state
VARIABLES
    \* MaskTools
    currentTool, brushSize, isDrawing, lastPoint, lassoPoints, isLassoActive,
    history, historyStep,
    \* the bitmap of the mask canvas element
    maskCanvas,
    \* number of saveState calls made on this MaskTools
    saveCalls,
    \* number of undo calls on this MaskTools that restored a snapshot
    undoCalls,
    \* ImageSegmentationApp
    currentImage, model, isProcessing, isShowingPreview, cachedSegmentation,
    previewTimeout, previewMask,
    \* the showClickPreview and the handleCanvasClick call waiting for segmentImage
    previewReq, clickReq,
    \* ImageSegmentation
    lastImageData, lastSegmentation,
    \* model.segment calls made since the last setupCanvas that have not failed
    modelCalls,
    \* number of setupCanvas calls
    loads,
    \* number of showError calls (alerts shown)
    errorsShown,
    \* a call of _findConnectedComponent in progress: its arguments
    \* (segmentationData, startX and startY, targetClass), its locals queue and
    \* visited, and the indices of the mask pixels it has written
    fillData, fillSeed, fillTarget, fillQueue, fillVisited, fillMask,
    \* how many times the call has read the class of each pixel
    classReads,
    \* the pixels whose class the call has read, in the order of reading
    fillOrder,
    \* the raster of the last file handleDownload produced
    download,
    \* the timeouts set with setTimeout that have neither fired nor been
    \* cleared, each with the event it was set for, and the identifier of the
    \* last one set (0: none yet), which is what the field previewTimeout holds
    timers, timerId

toolVars == <<currentTool, brushSize, isDrawing, lastPoint, lassoPoints,
              isLassoActive, history, historyStep, maskCanvas, saveCalls, undoCalls>>
appVars == <<currentImage, model, isProcessing, isShowingPreview, cachedSegmentation,
             previewTimeout, previewMask, previewReq, clickReq, lastImageData,
             lastSegmentation, modelCalls, loads, errorsShown>>
fillVars == <<fillData, fillSeed, fillTarget, fillQueue, fillVisited, fillMask,
              classReads, fillOrder>>
timerVars == <<timers, timerId>>
vars == <<toolVars, appVars, fillVars, download, timerVars>>

\* ------------------------------------------------------- MaskTools: history
Snapshot(canvas, serial) == [serial |-> serial, data |-> GetImageData(canvas)]

\* a saveState() that never evicts
SaveStateNoShift(h, step, canvas, serial) ==
    LET kept == IF step < Len(h) - 1 THEN SubSeq(h, 1, step + 1) ELSE h
    IN  [history |-> Append(kept, Snapshot(canvas, serial)), historyStep |-> step + 1]

\* a saveState() that evicts one snapshot early
SaveStateEarlyShift(h, step, canvas, serial) ==
    LET kept == IF step < Len(h) - 1 THEN SubSeq(h, 1, step + 1) ELSE h
        pushed == Append(kept, Snapshot(canvas, serial))
    IN  IF Len(pushed) >= maxHistorySize
        THEN [history |-> Tail(pushed), historyStep |-> step]
        ELSE [history |-> pushed, historyStep |-> step + 1]

\* a saveState() that keeps the snapshots beyond the cursor
SaveStateNoTruncate(h, step, canvas, serial) ==
    LET pushed == Append(h, Snapshot(canvas, serial))
    IN  IF Len(pushed) > maxHistorySize
        THEN [history |-> Tail(pushed), historyStep |-> Len(h) - 1]
        ELSE [history |-> pushed, historyStep |-> Len(h)]

\* a saveState() that, over capacity, drops the snapshot it has just taken
SaveStateDropNewest(h, step, canvas, serial) ==
    LET kept == IF step < Len(h) - 1 THEN SubSeq(h, 1, step + 1) ELSE h
        pushed == Append(kept, Snapshot(canvas, serial))
    IN  IF Len(pushed) > maxHistorySize
        THEN [history |-> kept, historyStep |-> step]
        ELSE [history |-> pushed, historyStep |-> step + 1]

\* a saveState() whose snapshots all share the buffer it writes
SaveStateSharedBuffer(h, step, canvas, serial) ==
    LET kept == IF step < Len(h) - 1 THEN SubSeq(h, 1, step + 1) ELSE h
        shared == [i \in 1 .. Len(kept) |->
                      [kept[i] EXCEPT !.data = GetImageData(canvas)]]
        pushed == Append(shared, Snapshot(canvas, serial))
    IN  IF Len(pushed) > maxHistorySize
        THEN [history |-> Tail(pushed), historyStep |-> step]
        ELSE [history |-> pushed, historyStep |-> step + 1]

\* saveState(): the history and cursor after the call
SaveState(h, step, canvas, serial) ==
    LET kept == IF step < Len(h) - 1 THEN SubSeq(h, 1, step + 1) ELSE h
        pushed == Append(kept, Snapshot(canvas, serial))
    IN  IF Len(pushed) > maxHistorySize
        THEN [history |-> Tail(pushed), historyStep |-> step]
        ELSE [history |-> pushed, historyStep |-> step + 1]

canUndo == historyStep > 0
canRedo == historyStep < Len(history) - 1

\* this.saveState() as the last statement of a handler that leaves the canvas at c
DoSaveState(c) ==
    LET s == SaveState(history, historyStep, c, saveCalls + 1)
    IN  /\ history' = s.history
        /\ historyStep' = s.historyStep
        /\ saveCalls' = saveCalls + 1

\* the state of a new MaskTools(container, maskCanvas, overlayCanvas) whose mask
\* canvas holds c
InitTools ==
    LET s == SaveState(<<>>, -1, BlankCanvas(Width, Height), 1)
    IN  /\ currentTool = "click"
        /\ brushSize = DefaultBrushSize
        /\ isDrawing = FALSE
        /\ lastPoint = NoPoint
        /\ lassoPoints = <<>>
        /\ isLassoActive = FALSE
        /\ history = s.history
        /\ historyStep = s.historyStep
        /\ saveCalls = 1
        /\ undoCalls = 0
        /\ maskCanvas = BlankCanvas(Width, Height)

\* a stroke that erases whatever the tool
PaintAlwaysErasing(d, isErase) == DestinationOut(Premul(OpaqueBlack), d)

\* the colour drawn into a covered pixel d: destination-out with the context's
\* default opaque black when erasing, source-over with the green paint otherwise
Paint(d, isErase) ==
    IF isErase THEN DestinationOut(Premul(OpaqueBlack), d)
    ELSE SourceOver(Premul(GreenPaint), d)

\* drawBrushStroke(point, isErase) with this.lastPoint = last
DrawBrushStroke(canvas, last, point, size, isErase) ==
    LET cover == IF last # NoPoint THEN StrokeCover(canvas, last, point, size)
                 ELSE StrokeCover(canvas, point, point, size)
        f(p) == IF p \in cover THEN Paint(canvas.data[p], isErase) ELSE canvas.data[p]
    IN  MapPixels(canvas, f)

\* a fill that adds whatever the tool
FillLassoAlwaysAdd(canvas, pts, isErase) ==
    LET cover == PolygonCover(canvas, pts)
        f(p) == IF p \in cover THEN Paint(canvas.data[p], FALSE) ELSE canvas.data[p]
    IN  MapPixels(canvas, f)

\* the fill of completeLasso()
FillLasso(canvas, pts, isErase) ==
    LET cover == PolygonCover(canvas, pts)
        f(p) == IF p \in cover THEN Paint(canvas.data[p], isErase) ELSE canvas.data[p]
    IN  MapPixels(canvas, f)

IsLassoTool(t) == t = "lasso" \/ t = "lasso-erase"
IsBrushTool(t) == t = "brush" \/ t = "erase"

HandlePointerDown(point) ==
    /\ UNCHANGED <<currentTool, brushSize, history, historyStep, saveCalls, undoCalls>>
    /\ IF IsBrushTool(currentTool)
       THEN /\ isDrawing' = TRUE
            /\ lastPoint' = point
            /\ maskCanvas' = DrawBrushStroke(maskCanvas, point, point, brushSize,
                                             currentTool = "erase")
            /\ UNCHANGED <<lassoPoints, isLassoActive>>
       ELSE IF IsLassoTool(currentTool)
       THEN /\ isLassoActive' = TRUE
            /\ lassoPoints' = IF isLassoActive THEN Append(lassoPoints, point)
                              ELSE <<point>>
            /\ UNCHANGED <<isDrawing, lastPoint, maskCanvas>>
       ELSE UNCHANGED <<isDrawing, lastPoint, maskCanvas, lassoPoints, isLassoActive>>

\* a handlePointerMove that records a snapshot for every segment it draws
HandlePointerMoveSaving(point) ==
    /\ UNCHANGED <<currentTool, brushSize, undoCalls, isDrawing, lassoPoints,
                   isLassoActive>>
    /\ IF IsBrushTool(currentTool) /\ isDrawing /\ lastPoint # NoPoint
       THEN LET drawn == DrawBrushStroke(maskCanvas, lastPoint, point, brushSize,
                                         currentTool = "erase")
            IN  /\ maskCanvas' = drawn
                /\ lastPoint' = point
                /\ DoSaveState(drawn)
       ELSE UNCHANGED <<maskCanvas, lastPoint, history, historyStep, saveCalls>>

HandlePointerMove(point) ==
    /\ UNCHANGED <<currentTool, brushSize, history, historyStep, saveCalls, undoCalls,
                   isDrawing, lassoPoints, isLassoActive>>
    /\ IF IsBrushTool(currentTool) /\ isDrawing /\ lastPoint # NoPoint
       THEN /\ maskCanvas' = DrawBrushStroke(maskCanvas, lastPoint, point, brushSize,
                                             currentTool = "erase")
            /\ lastPoint' = point
       ELSE UNCHANGED <<maskCanvas, lastPoint>>

HandlePointerUp ==
    /\ UNCHANGED <<currentTool, brushSize, lassoPoints, isLassoActive, maskCanvas,
                   undoCalls>>
    /\ IF IsBrushTool(currentTool) /\ isDrawing
       THEN /\ isDrawing' = FALSE
            /\ lastPoint' = NoPoint
            /\ DoSaveState(maskCanvas)
       ELSE UNCHANGED <<isDrawing, lastPoint, history, historyStep, saveCalls>>

\* cancelLasso()
CancelLasso ==
    /\ isLassoActive' = FALSE
    /\ lassoPoints' = <<>>

\* a completeLasso() without the check on the number of points
CompleteLassoAnyCount ==
    /\ CancelLasso
    /\ LET filled == FillLasso(maskCanvas, lassoPoints, currentTool = "lasso-erase")
       IN  /\ maskCanvas' = filled
           /\ DoSaveState(filled)

CompleteLasso ==
    /\ CancelLasso
    /\ IF Len(lassoPoints) < 3
       THEN UNCHANGED <<maskCanvas, history, historyStep, saveCalls>>
       ELSE LET filled == FillLasso(maskCanvas, lassoPoints, currentTool = "lasso-erase")
            IN  /\ maskCanvas' = filled
                /\ DoSaveState(filled)

HandleDoubleClick ==
    /\ UNCHANGED <<currentTool, brushSize, isDrawing, lastPoint, undoCalls>>
    /\ IF IsLassoTool(currentTool) /\ isLassoActive
       THEN CompleteLasso
       ELSE UNCHANGED <<lassoPoints, isLassoActive, maskCanvas, history, historyStep,
                        saveCalls>>

\* a setTool that leaves an active lasso alone
SetToolKeepLasso(tool) ==
    /\ currentTool' = tool
    /\ UNCHANGED <<lassoPoints, isLassoActive, brushSize, isDrawing, lastPoint, history,
                   historyStep, maskCanvas, saveCalls, undoCalls>>

SetTool(tool) ==
    /\ IF IsLassoTool(currentTool) /\ isLassoActive
       THEN CancelLasso
       ELSE UNCHANGED <<lassoPoints, isLassoActive>>
    /\ currentTool' = tool
    /\ UNCHANGED <<brushSize, isDrawing, lastPoint, history, historyStep, maskCanvas,
                   saveCalls, undoCalls>>

\* a setBrushSize that stores its argument as it is
SetBrushSizeUnclamped(size) ==
    /\ brushSize' = size
    /\ UNCHANGED <<currentTool, isDrawing, lastPoint, lassoPoints, isLassoActive,
                   history, historyStep, maskCanvas, saveCalls, undoCalls>>

SetBrushSize(size) ==
    /\ brushSize' = Max(MinBrushSize, Min(MaxBrushSize, size))
    /\ UNCHANGED <<currentTool, isDrawing, lastPoint, lassoPoints, isLassoActive,
                   history, historyStep, maskCanvas, saveCalls, undoCalls>>

\* an undo() that repaints the canvas from the oldest snapshot when there is
\* nothing to undo
undoRepaint(h, step, canvas) ==
    IF step > 0
    THEN [ok |-> TRUE, historyStep |-> step - 1, canvas |-> PutImageData(h[step].data)]
    ELSE [ok |-> FALSE, historyStep |-> step, canvas |-> PutImageData(h[1].data)]

\* undo(): the value returned, the cursor and the mask canvas after the call
undo(h, step, canvas) ==
    IF step > 0
    THEN [ok |-> TRUE, historyStep |-> step - 1, canvas |-> PutImageData(h[step].data)]
    ELSE [ok |-> FALSE, historyStep |-> step, canvas |-> canvas]

Undo ==
    LET u == undo(history, historyStep, maskCanvas)
    IN  /\ historyStep' = u.historyStep
        /\ maskCanvas' = u.canvas
        /\ undoCalls' = IF u.ok THEN undoCalls + 1 ELSE undoCalls
        /\ UNCHANGED <<currentTool, brushSize, isDrawing, lastPoint, lassoPoints,
                       isLassoActive, history, saveCalls>>

\* a redo() that paints the snapshot it leaves instead of the one it moves to
redoStale(h, step, canvas) ==
    IF step < Len(h) - 1
    THEN [ok |-> TRUE, historyStep |-> step + 1, canvas |-> PutImageData(h[step + 1].data)]
    ELSE [ok |-> FALSE, historyStep |-> step, canvas |-> canvas]

\* redo(): the value returned, the cursor and the mask canvas after the call
redo(h, step, canvas) ==
    IF step < Len(h) - 1
    THEN [ok |-> TRUE, historyStep |-> step + 1, canvas |-> PutImageData(h[step + 2].data)]
    ELSE [ok |-> FALSE, historyStep |-> step, canvas |-> canvas]

Redo ==
    LET r == redo(history, historyStep, maskCanvas)
    IN  /\ historyStep' = r.historyStep
        /\ maskCanvas' = r.canvas
        /\ UNCHANGED <<currentTool, brushSize, isDrawing, lastPoint, lassoPoints,
                       isLassoActive, history, saveCalls, undoCalls>>

ClearMask ==
    /\ maskCanvas' = ClearRect(maskCanvas)
    /\ DoSaveState(ClearRect(maskCanvas))
    /\ UNCHANGED <<currentTool, brushSize, isDrawing, lastPoint, lassoPoints,
                   isLassoActive, undoCalls>>

\* convertToGreenOverlay(imageData)
ConvertToGreenOverlay(img) ==
    LET f(p) == IF img.data[p][1] > 128 THEN <<0, 180, 20, 250>>
                ELSE <<img.data[p][1], img.data[p][2], img.data[p][3], 0>>
    IN  MapPixels(img, f)

\* applySegmentation(imageData, additive)
ApplySegmentation(img, additive) ==
    LET temp == PutImageData(ConvertToGreenOverlay(img))
        cleared == SaveState(history, historyStep, ClearRect(maskCanvas), saveCalls + 1)
        drawn == IF additive THEN DrawImageLighter(temp, maskCanvas)
                 ELSE DrawImageSourceOver(temp, ClearRect(maskCanvas))
        s == IF additive
             THEN SaveState(history, historyStep, drawn, saveCalls + 1)
             ELSE SaveState(cleared.history, cleared.historyStep, drawn, saveCalls + 2)
    IN  /\ maskCanvas' = drawn
        /\ history' = s.history
        /\ historyStep' = s.historyStep
        /\ saveCalls' = IF additive THEN saveCalls + 1 ELSE saveCalls + 2
        /\ UNCHANGED <<currentTool, brushSize, isDrawing, lastPoint, lassoPoints,
                       isLassoActive, undoCalls>>

\* getMaskData(): the mask as pure black and white
GetMaskData(canvas) ==
    LET img == GetImageData(canvas)
        f(p) == IF img.data[p][2] > 50 THEN White ELSE OpaqueBlack
    IN  MapPixels(img, f)

\* the pixels getMaskData reports selected
Selected(canvas) == {p \in PixelsOf(canvas) : GetMaskData(canvas).data[p] = White}

\* ------------------------------------------------------ ImageSegmentation
NoImage == 0
Images == {1, 2}
NoRaster == BlankCanvas(0, 0)
NoReq == [point |-> NoPoint, image |-> NoImage, load |-> 0]
NoSeg == [image |-> NoImage, imageData |-> NoRaster]

\* the pixels of image i as drawn on the image canvas: grey, opaque
ImageRaster(i) ==
    LET f(p) == IF p = (i - 1) % (Width * Height) THEN <<10 * i, 10 * i, 10 * i, 255>>
                ELSE OpaqueBlack
    IN  Raster(Width, Height, f)

\* the class the DeepLab model gives pixel p of image i (0: background)
ClassOf(i, p) == IF i = 1 THEN (IF p % Width = 0 THEN 15 ELSE 0) ELSE 8

\* what _processSegmentationResult returns for image i: the class in R, G and B
SegmentationResult(i) ==
    LET f(p) == <<ClassOf(i, p), ClassOf(i, p), ClassOf(i, p), 255>>
    IN  [image |-> i, imageData |-> Raster(Width, Height, f)]

\* byte k of an ImageData's data array (undefined past its end: -1)
ByteAt(d, k) ==
    IF k < 4 * d.width * d.height THEN d.data[k \div 4][(k % 4) + 1] ELSE -1

\* _imageDataEqual(data1, data2): three sampled pixels
ImageDataEqual(d1, d2) ==
    /\ d1.width = d2.width
    /\ d1.height = d2.height
    /\ LET len == 4 * d1.width * d1.height
       IN  \A idx \in {0, len \div 4, len - 4} : \A i \in 0 .. 3 :
               ByteAt(d1, idx + i) = ByteAt(d2, idx + i)

\* segmentImage(canvas) answers from its own cache, without calling the model
SegmentCacheHit(i) ==
    /\ lastImageData # NoRaster
    /\ ImageDataEqual(ImageRaster(i), lastImageData)

\* a flood fill that also spreads to the diagonal neighbours
RECURSIVE FindComponentDiagonal(_, _, _, _, _)
FindComponentDiagonal(img, queue, visited, found, targetClass) ==
    IF queue = <<>> THEN found
    ELSE LET x == Head(queue)[1]
             y == Head(queue)[2]
             rest == Tail(queue)
             idx == y * img.width + x
         IN  IF x < 0 \/ x >= img.width \/ y < 0 \/ y >= img.height
             THEN FindComponentDiagonal(img, rest, visited, found, targetClass)
             ELSE IF idx \in visited
             THEN FindComponentDiagonal(img, rest, visited, found, targetClass)
             ELSE IF img.data[idx][1] = targetClass
             THEN FindComponentDiagonal(img,
                      rest \o <<(<<x + 1, y>>), (<<x - 1, y>>), (<<x, y + 1>>), (<<x, y - 1>>),
                                (<<x + 1, y + 1>>), (<<x - 1, y - 1>>)>>,
                      visited \cup {idx}, found \cup {idx}, targetClass)
             ELSE FindComponentDiagonal(img, rest, visited \cup {idx}, found, targetClass)

\* a flood fill that spreads to the right and downwards only
RECURSIVE FindComponentForward(_, _, _, _, _)
FindComponentForward(img, queue, visited, found, targetClass) ==
    IF queue = <<>> THEN found
    ELSE LET x == Head(queue)[1]
             y == Head(queue)[2]
             rest == Tail(queue)
             idx == y * img.width + x
         IN  IF x < 0 \/ x >= img.width \/ y < 0 \/ y >= img.height
             THEN FindComponentForward(img, rest, visited, found, targetClass)
             ELSE IF idx \in visited
             THEN FindComponentForward(img, rest, visited, found, targetClass)
             ELSE IF img.data[idx][1] = targetClass
             THEN FindComponentForward(img, rest \o <<(<<x + 1, y>>), (<<x, y + 1>>)>>,
                      visited \cup {idx}, found \cup {idx}, targetClass)
             ELSE FindComponentForward(img, rest, visited \cup {idx}, found, targetClass)

\* _findConnectedComponent: the pixel indices given the target class, by the
\* code's queue (a sequence of <<x, y>>) and visited set
RECURSIVE FindConnectedComponent(_, _, _, _, _)
FindConnectedComponent(img, queue, visited, found, targetClass) ==
    IF queue = <<>> THEN found
    ELSE LET x == Head(queue)[1]
             y == Head(queue)[2]
             rest == Tail(queue)
             idx == y * img.width + x
         IN  IF x < 0 \/ x >= img.width \/ y < 0 \/ y >= img.height
             THEN FindConnectedComponent(img, rest, visited, found, targetClass)
             ELSE IF idx \in visited
             THEN FindConnectedComponent(img, rest, visited, found, targetClass)
             ELSE IF img.data[idx][1] = targetClass
             THEN FindConnectedComponent(img,
                      rest \o <<(<<x + 1, y>>), (<<x - 1, y>>), (<<x, y + 1>>), (<<x, y - 1>>)>>,
                      visited \cup {idx}, found \cup {idx}, targetClass)
             ELSE FindConnectedComponent(img, rest, visited \cup {idx}, found, targetClass)

\* a createClickMask without the branch for the background class
CreateClickMaskFloodsBackground(img, pt) ==
    LET x == pt[1] \div 2
        y == pt[2] \div 2
        clickedClass == img.data[y * img.width + x][1]
        found == FindConnectedComponent(img, <<(<<x, y>>)>>, {}, {}, clickedClass)
        component(p) == IF p \in found THEN White ELSE Transparent
    IN  MapPixels(img, component)

\* createClickMask takes the class buffer itself here: handleCanvasClick and
\* showClickPreview pass segmentationResult.imageData, the ImageData whose R
\* channel holds the class of each pixel.
\* createClickMask: the class buffer img, the click at pt (half pixels, so that
\* Math.floor(clickX) is pt[1] \div 2)
CreateClickMask(img, pt) ==
    LET x == pt[1] \div 2
        y == pt[2] \div 2
        clickedClass == img.data[y * img.width + x][1]
        found == FindConnectedComponent(img, <<(<<x, y>>)>>, {}, {}, clickedClass)
        background(p) == OpaqueBlack
        component(p) == IF p \in found THEN White ELSE Transparent
    IN  IF clickedClass = 0 THEN MapPixels(img, background)
        ELSE MapPixels(img, component)

\* --------------------------------------------------- ImageSegmentationApp
modelLoaded == model = "loaded"

\* initializeApp(): initializeModel() resolved, or threw
InitializeAppLoaded ==
    /\ model = "loading"
    /\ model' = "loaded"
    /\ UNCHANGED <<toolVars, currentImage, isProcessing, isShowingPreview,
                   cachedSegmentation, previewTimeout, previewMask, previewReq, clickReq,
                   lastImageData, lastSegmentation, modelCalls, loads, errorsShown>>

InitializeAppFailed ==
    /\ model = "loading"
    /\ model' = "failed"
    /\ UNCHANGED <<toolVars, currentImage, isProcessing, isShowingPreview,
                   cachedSegmentation, previewTimeout, previewMask, previewReq, clickReq,
                   lastImageData, lastSegmentation, modelCalls, loads>>
    /\ errorsShown' = errorsShown + 1

\* a setupCanvas that keeps the MaskTools and the mask of the image before
SetupCanvasKeepingTools(img) ==
    /\ currentImage' = img
    /\ cachedSegmentation' = NoSeg
    /\ previewMask' = NoRaster
    /\ modelCalls' = 0
    /\ loads' = loads + 1
    /\ UNCHANGED toolVars
    /\ UNCHANGED <<model, isProcessing, isShowingPreview, previewTimeout, previewReq,
                   clickReq, lastImageData, lastSegmentation, errorsShown>>

\* setupCanvas(img), called when the image of loadImage has loaded
SetupCanvas(img) ==
    LET s == SaveState(<<>>, -1, BlankCanvas(Width, Height), 1)
    IN  /\ currentImage' = img
        /\ cachedSegmentation' = NoSeg
        /\ previewMask' = NoRaster
        /\ maskCanvas' = BlankCanvas(Width, Height)
        /\ currentTool' = "click"
        /\ brushSize' = DefaultBrushSize
        /\ isDrawing' = FALSE
        /\ lastPoint' = NoPoint
        /\ lassoPoints' = <<>>
        /\ isLassoActive' = FALSE
        /\ history' = s.history
        /\ historyStep' = s.historyStep
        /\ saveCalls' = 1
        /\ undoCalls' = 0
        /\ modelCalls' = 0
        /\ loads' = loads + 1
        /\ UNCHANGED <<model, isProcessing, isShowingPreview, previewTimeout, previewReq,
                       clickReq, lastImageData, lastSegmentation, errorsShown>>

\* handleToolChange(e) with e.currentTarget.dataset.tool = tool
HandleToolChange(tool) ==
    /\ IF currentImage # NoImage THEN SetTool(tool) ELSE UNCHANGED toolVars
    /\ UNCHANGED appVars

\* handleCanvasMouseMove(e)
HandleCanvasMouseMove(pt) ==
    /\ previewTimeout' =
          IF currentImage = NoImage \/ ~modelLoaded \/ isProcessing \/ currentTool # "click"
          THEN previewTimeout ELSE pt
    /\ UNCHANGED <<currentImage, model, isProcessing, isShowingPreview,
                   cachedSegmentation, previewMask, previewReq, clickReq, lastImageData,
                   lastSegmentation, modelCalls, loads, errorsShown>>

\* handleCanvasMouseLeave()
HandleCanvasMouseLeave ==
    /\ previewTimeout' = NoPoint
    /\ previewMask' = NoRaster
    /\ UNCHANGED <<currentImage, model, isProcessing, isShowingPreview,
                   cachedSegmentation, previewReq, clickReq, lastImageData,
                   lastSegmentation, modelCalls, loads, errorsShown>>

\* the statements of showClickPreview after the segmentation is at hand
FinishPreview(seg, pt) ==
    /\ cachedSegmentation' = seg
    /\ previewMask' = CreateClickMask(seg.imageData, pt)
    /\ isShowingPreview' = FALSE

\* showClickPreview(e)
ShowClickPreviewAt(pt) ==
    /\ UNCHANGED <<toolVars, currentImage, model, isProcessing, clickReq, lastImageData,
                   lastSegmentation, loads, errorsShown>>
    /\ IF isProcessing \/ isShowingPreview
       THEN UNCHANGED <<isShowingPreview, cachedSegmentation, previewMask, previewReq,
                        modelCalls>>
       ELSE IF cachedSegmentation # NoSeg
       THEN /\ FinishPreview(cachedSegmentation, pt)
            /\ UNCHANGED <<previewReq, modelCalls>>
       ELSE IF SegmentCacheHit(currentImage)
       THEN /\ FinishPreview(lastSegmentation, pt)
            /\ UNCHANGED <<previewReq, modelCalls>>
       ELSE /\ isShowingPreview' = TRUE
            /\ previewReq' = [point |-> pt, image |-> currentImage, load |-> loads]
            /\ modelCalls' = modelCalls + 1
            /\ UNCHANGED <<cachedSegmentation, previewMask>>

\* the debounce timer fires: showClickPreview(e)
ShowClickPreview ==
    /\ previewTimeout # NoPoint
    /\ previewTimeout' = NoPoint
    /\ ShowClickPreviewAt(previewTimeout)

\* a preview that clears the mask when its segmentation arrives
PreviewSegmentResolvedClearing ==
    /\ previewReq # NoReq
    /\ previewReq' = NoReq
    /\ lastImageData' = ImageRaster(previewReq.image)
    /\ lastSegmentation' = SegmentationResult(previewReq.image)
    /\ FinishPreview(SegmentationResult(previewReq.image), previewReq.point)
    /\ ClearMask
    /\ UNCHANGED <<currentImage, model, isProcessing, previewTimeout, clickReq,
                   modelCalls, loads, errorsShown>>

\* model.segment resolves for the preview: segmentImage caches and returns the
\* result, showClickPreview resumes
PreviewSegmentResolved ==
    /\ previewReq # NoReq
    /\ previewReq' = NoReq
    /\ lastImageData' = ImageRaster(previewReq.image)
    /\ lastSegmentation' = SegmentationResult(previewReq.image)
    /\ FinishPreview(SegmentationResult(previewReq.image), previewReq.point)
    /\ UNCHANGED <<toolVars, currentImage, model, isProcessing, previewTimeout, clickReq,
                   modelCalls, loads, errorsShown>>

\* model.segment rejects for the preview: segmentImage throws, showClickPreview
\* logs a warning
PreviewSegmentFailed ==
    /\ previewReq # NoReq
    /\ previewReq' = NoReq
    /\ isShowingPreview' = FALSE
    /\ modelCalls' = IF previewReq.load = loads /\ modelCalls > 0
                     THEN modelCalls - 1 ELSE modelCalls
    /\ UNCHANGED <<toolVars, currentImage, model, isProcessing, cachedSegmentation,
                   previewTimeout, previewMask, clickReq, lastImageData,
                   lastSegmentation, loads, errorsShown>>

\* a subtractMaskFromSelection that draws the object mask over the selection
SubtractMaskSourceOver(objectMask) ==
    LET cut == DrawImageSourceOver(PutImageData(objectMask), maskCanvas)
    IN  /\ maskCanvas' = cut
        /\ DoSaveState(cut)
        /\ UNCHANGED <<currentTool, brushSize, isDrawing, lastPoint, lassoPoints,
                       isLassoActive, undoCalls>>

\* subtractMaskFromSelection(objectMask)
SubtractMaskFromSelection(objectMask) ==
    LET cut == DrawImageDestinationOut(PutImageData(objectMask), maskCanvas)
    IN  /\ maskCanvas' = cut
        /\ DoSaveState(cut)
        /\ UNCHANGED <<currentTool, brushSize, isDrawing, lastPoint, lassoPoints,
                       isLassoActive, undoCalls>>

\* a click that adds the region wherever it lands
FinishClickAlwaysAdd(seg, pt) ==
    LET objectMask == CreateClickMask(seg.imageData, pt)
        hasSelection == \E p \in PixelsOf(objectMask) : objectMask.data[p][1] > 0
    IN  /\ cachedSegmentation' = seg
        /\ isProcessing' = FALSE
        /\ IF ~hasSelection THEN UNCHANGED toolVars
           ELSE ApplySegmentation(objectMask, TRUE)

\* a click that applies the object mask without looking whether it selects
\* anything
FinishClickNoEmptyCheck(seg, pt) ==
    LET maskData == GetMaskData(maskCanvas)
        pixelIndex == (pt[2] \div 2) * maskData.width + (pt[1] \div 2)
        isInSelection == maskData.data[pixelIndex][1] > 128
        objectMask == CreateClickMask(seg.imageData, pt)
    IN  /\ cachedSegmentation' = seg
        /\ isProcessing' = FALSE
        /\ IF isInSelection THEN SubtractMaskFromSelection(objectMask)
           ELSE ApplySegmentation(objectMask, TRUE)

\* the statements of handleCanvasClick after the segmentation is at hand
FinishClick(seg, pt) ==
    LET maskData == GetMaskData(maskCanvas)
        pixelIndex == (pt[2] \div 2) * maskData.width + (pt[1] \div 2)
        isInSelection == maskData.data[pixelIndex][1] > 128
        objectMask == CreateClickMask(seg.imageData, pt)
        hasSelection == \E p \in PixelsOf(objectMask) : objectMask.data[p][1] > 0
    IN  /\ cachedSegmentation' = seg
        /\ isProcessing' = FALSE
        /\ IF ~hasSelection THEN UNCHANGED toolVars
           ELSE IF isInSelection THEN SubtractMaskFromSelection(objectMask)
           ELSE ApplySegmentation(objectMask, TRUE)

\* a handleCanvasClick that does not return when isProcessing is set
HandleCanvasClickReentrant(pt) ==
    /\ currentImage # NoImage
    /\ modelLoaded
    /\ currentTool = "click"
    /\ previewMask' = NoRaster
    /\ UNCHANGED <<currentImage, model, isShowingPreview, previewTimeout, previewReq,
                   lastImageData, lastSegmentation, loads, errorsShown>>
    /\ IF cachedSegmentation # NoSeg
       THEN /\ FinishClick(cachedSegmentation, pt)
            /\ UNCHANGED <<clickReq, modelCalls>>
       ELSE IF SegmentCacheHit(currentImage)
       THEN /\ FinishClick(lastSegmentation, pt)
            /\ UNCHANGED <<clickReq, modelCalls>>
       ELSE /\ isProcessing' = TRUE
            /\ clickReq' = [point |-> pt, image |-> currentImage, load |-> loads]
            /\ modelCalls' = modelCalls + 1
            /\ UNCHANGED <<toolVars, cachedSegmentation>>

\* handleCanvasClick(e) up to its await
HandleCanvasClick(pt) ==
    /\ currentImage # NoImage
    /\ modelLoaded
    /\ ~isProcessing
    /\ currentTool = "click"
    /\ previewMask' = NoRaster
    /\ UNCHANGED <<currentImage, model, isShowingPreview, previewTimeout, previewReq,
                   lastImageData, lastSegmentation, loads, errorsShown>>
    /\ IF cachedSegmentation # NoSeg
       THEN /\ FinishClick(cachedSegmentation, pt)
            /\ UNCHANGED <<clickReq, modelCalls>>
       ELSE IF SegmentCacheHit(currentImage)
       THEN /\ FinishClick(lastSegmentation, pt)
            /\ UNCHANGED <<clickReq, modelCalls>>
       ELSE /\ isProcessing' = TRUE
            /\ clickReq' = [point |-> pt, image |-> currentImage, load |-> loads]
            /\ modelCalls' = modelCalls + 1
            /\ UNCHANGED <<toolVars, cachedSegmentation>>

\* model.segment resolves for the click: segmentImage caches and returns the
\* result, handleCanvasClick resumes
ClickSegmentResolved ==
    /\ clickReq # NoReq
    /\ clickReq' = NoReq
    /\ lastImageData' = ImageRaster(clickReq.image)
    /\ lastSegmentation' = SegmentationResult(clickReq.image)
    /\ FinishClick(SegmentationResult(clickReq.image), clickReq.point)
    /\ UNCHANGED <<currentImage, model, isShowingPreview, previewTimeout, previewMask,
                   previewReq, modelCalls, loads, errorsShown>>

\* a failed click that shows nothing
ClickSegmentFailedSilent ==
    /\ clickReq # NoReq
    /\ clickReq' = NoReq
    /\ isProcessing' = FALSE
    /\ modelCalls' = IF clickReq.load = loads /\ modelCalls > 0
                     THEN modelCalls - 1 ELSE modelCalls
    /\ UNCHANGED <<toolVars, currentImage, model, isShowingPreview, cachedSegmentation,
                   previewTimeout, previewMask, previewReq, lastImageData,
                   lastSegmentation, loads, errorsShown>>

\* model.segment rejects for the click: segmentImage throws, handleCanvasClick
\* shows the error
ClickSegmentFailed ==
    /\ clickReq # NoReq
    /\ clickReq' = NoReq
    /\ isProcessing' = FALSE
    /\ modelCalls' = IF clickReq.load = loads /\ modelCalls > 0
                     THEN modelCalls - 1 ELSE modelCalls
    /\ UNCHANGED <<toolVars, currentImage, model, isShowingPreview, cachedSegmentation,
                   previewTimeout, previewMask, previewReq, lastImageData,
                   lastSegmentation, loads>>
    /\ errorsShown' = errorsShown + 1

\* handleUndo(), handleRedo(), handleClear()
HandleUndo == (IF currentImage # NoImage THEN Undo ELSE UNCHANGED toolVars) /\ UNCHANGED appVars
HandleRedo == (IF currentImage # NoImage THEN Redo ELSE UNCHANGED toolVars) /\ UNCHANGED appVars
HandleClear ==
    (IF currentImage # NoImage THEN ClearMask ELSE UNCHANGED toolVars) /\ UNCHANGED appVars

\* the events of the overlay canvas, each reaching the listeners of the
\* application and of MaskTools
MouseDown(pt) == currentImage # NoImage /\ HandlePointerDown(pt) /\ UNCHANGED appVars
MouseMove(pt) == currentImage # NoImage /\ HandleCanvasMouseMove(pt) /\ HandlePointerMove(pt)
MouseUp == currentImage # NoImage /\ HandlePointerUp /\ UNCHANGED appVars
MouseLeave == currentImage # NoImage /\ HandleCanvasMouseLeave /\ HandlePointerUp

\* no call of _findConnectedComponent in progress, nothing downloaded yet
NoFill ==
    /\ fillData = NoRaster
    /\ fillSeed = NoPoint
    /\ fillTarget = 0
    /\ fillQueue = <<>>
    /\ fillVisited = {}
    /\ fillMask = {}
    /\ classReads = << >>
    /\ fillOrder = <<>>
    /\ download = NoRaster
    /\ timers = {}
    /\ timerId = 0

\* --------------------------------------------------------- specifications
\* the application as constructed: no image, the model loading
InitApp ==
    /\ currentImage = NoImage
    /\ model = "loading"
    /\ isProcessing = FALSE
    /\ isShowingPreview = FALSE
    /\ cachedSegmentation = NoSeg
    /\ previewTimeout = NoPoint
    /\ previewMask = NoRaster
    /\ previewReq = NoReq
    /\ clickReq = NoReq
    /\ lastImageData = NoRaster
    /\ lastSegmentation = NoSeg
    /\ modelCalls = 0
    /\ loads = 0
    /\ errorsShown = 0

\* no MaskTools yet (this.maskTools = null)
NoMaskTools ==
    /\ currentTool = "click"
    /\ brushSize = DefaultBrushSize
    /\ isDrawing = FALSE
    /\ lastPoint = NoPoint
    /\ lassoPoints = <<>>
    /\ isLassoActive = FALSE
    /\ history = <<>>
    /\ historyStep = -1
    /\ saveCalls = 0
    /\ undoCalls = 0
    /\ maskCanvas = BlankCanvas(Width, Height)

Init == InitApp /\ NoMaskTools /\ NoFill

\* tools the toolbar is used for in Spec
AppTools == {"click", "brush"}

Next ==
    /\ \/ InitializeAppLoaded
       \/ InitializeAppFailed
       \/ \E img \in Images : SetupCanvas(img)
       \/ \E t \in AppTools : HandleToolChange(t)
       \/ \E pt \in Points : MouseDown(pt)
       \/ \E pt \in Points : MouseMove(pt)
       \/ MouseUp
       \/ MouseLeave
       \/ \E pt \in Points : HandleCanvasClick(pt)
       \/ ShowClickPreview
       \/ PreviewSegmentResolved
       \/ PreviewSegmentFailed
       \/ ClickSegmentResolved
       \/ ClickSegmentFailed
       \/ HandleUndo
       \/ HandleRedo
       \/ HandleClear
    /\ saveCalls' <= MaxAppSaves
    /\ undoCalls' <= MaxAppUndos
    /\ loads' <= MaxLoads
    /\ errorsShown' <= MaxErrors
    /\ UNCHANGED <<fillVars, download, timerVars>>

Spec == Init /\ [][Next]_vars

\* the application with the model loaded and the first image set up
InitLoaded ==
    /\ currentImage = 1
    /\ model = "loaded"
    /\ isProcessing = FALSE
    /\ isShowingPreview = FALSE
    /\ cachedSegmentation = NoSeg
    /\ previewTimeout = NoPoint
    /\ previewMask = NoRaster
    /\ previewReq = NoReq
    /\ clickReq = NoReq
    /\ lastImageData = NoRaster
    /\ lastSegmentation = NoSeg
    /\ modelCalls = 0
    /\ loads = 1
    /\ errorsShown = 0

\* a MaskTools constructed for the first image
InitSession == InitTools /\ InitLoaded /\ NoFill

\* ImageData arguments of applySegmentation: nothing selected, everything selected
EmptyObjectMask == LET f(p) == Transparent IN Raster(Width, Height, f)
FullObjectMask == LET f(p) == White IN Raster(Width, Height, f)
BrushSizeInputs == {0}

\* MaskTools alone, driven through its handlers and public methods
NextTools ==
    /\ \/ \E pt \in Points : HandlePointerDown(pt)
       \/ \E pt \in Points : HandlePointerMove(pt)
       \/ HandlePointerUp
       \/ HandleDoubleClick
       \/ \E t \in Tools : SetTool(t)
       \/ \E n \in BrushSizeInputs : SetBrushSize(n)
       \/ Undo
       \/ Redo
       \/ ClearMask
    /\ saveCalls' <= MaxSaves
    /\ undoCalls' <= MaxUndos
    /\ Len(lassoPoints') <= MaxLasso
    /\ UNCHANGED <<appVars, fillVars, download, timerVars>>

SpecTools == InitSession /\ [][NextTools]_vars

\* the history driven past its capacity
NextHist ==
    /\ \/ DoSaveState(maskCanvas)
            /\ UNCHANGED <<currentTool, brushSize, isDrawing, lastPoint, lassoPoints,
                           isLassoActive, maskCanvas, undoCalls>>
       \/ Undo
       \/ Redo
       \/ ClearMask
       \/ \E additive \in BOOLEAN : ApplySegmentation(EmptyObjectMask, additive)
    /\ saveCalls' <= MaxHistSaves
    /\ undoCalls' <= MaxUndos
    /\ UNCHANGED <<appVars, fillVars, download, timerVars>>

SpecHist == InitSession /\ [][NextHist]_vars

\* the lasso tools on a square canvas, the vertices at three of its corners
LassoCorners == {<<0, 0>>, <<2 * LassoSide, 0>>, <<0, 2 * LassoSide>>}
LassoTools == {"lasso", "lasso-erase", "click"}

\* a MaskTools constructed over a blank LassoSide x LassoSide mask canvas
InitLasso ==
    LET s == SaveState(<<>>, -1, BlankCanvas(LassoSide, LassoSide), 1)
    IN  /\ InitLoaded
        /\ NoFill
        /\ currentTool = "click"
        /\ brushSize = DefaultBrushSize
        /\ isDrawing = FALSE
        /\ lastPoint = NoPoint
        /\ lassoPoints = <<>>
        /\ isLassoActive = FALSE
        /\ history = s.history
        /\ historyStep = s.historyStep
        /\ saveCalls = 1
        /\ undoCalls = 0
        /\ maskCanvas = BlankCanvas(LassoSide, LassoSide)

NextLasso ==
    /\ \/ \E pt \in LassoCorners : HandlePointerDown(pt)
       \/ HandleDoubleClick
       \/ \E t \in LassoTools : SetTool(t)
    /\ saveCalls' <= MaxLassoSaves
    /\ Len(lassoPoints') <= MaxLassoPoints
    /\ UNCHANGED <<appVars, fillVars, download, timerVars>>

SpecLasso == InitLasso /\ [][NextLasso]_vars

\* one image: the click tool and the brush, clicks resolving or failing
NextClick ==
    /\ \/ \E t \in AppTools : HandleToolChange(t)
       \/ \E pt \in Points : MouseDown(pt)
       \/ MouseUp
       \/ \E pt \in Points : HandleCanvasClick(pt)
       \/ ClickSegmentResolved
       \/ ClickSegmentFailed
       \/ HandleUndo
    /\ saveCalls' <= MaxClickSaves
    /\ undoCalls' <= MaxAppUndos
    /\ errorsShown' <= MaxErrors
    /\ UNCHANGED <<fillVars, download, timerVars>>

SpecClick == InitSession /\ [][NextClick]_vars

\* one image: clicks and hover previews only
NextHover ==
    /\ \/ \E pt \in Points : MouseMove(pt)
       \/ MouseLeave
       \/ ShowClickPreview
       \/ PreviewSegmentResolved
       \/ PreviewSegmentFailed
       \/ \E pt \in Points : HandleCanvasClick(pt)
       \/ ClickSegmentResolved
       \/ ClickSegmentFailed
    /\ saveCalls' <= MaxClickSaves
    /\ errorsShown' <= MaxErrors
    /\ UNCHANGED <<fillVars, download, timerVars>>

SpecHover == InitSession /\ [][NextHover]_vars

\* the classes the model may give a pixel in SpecSelect: background and two
\* object classes
SelClasses == {0, 8, 15}
\* every class buffer of SelWidth columns and two rows
ClassBuffers ==
    {[width |-> SelWidth, height |-> 2,
      data |-> [p \in 0 .. (2 * SelWidth - 1) |-> <<c[p], c[p], c[p], 255>>]] :
        c \in [0 .. (2 * SelWidth - 1) -> SelClasses]}
\* the pixel centres of such a buffer
SelPoints == {<<2 * x + 1, 2 * y + 1>> : x \in 0 .. (SelWidth - 1), y \in 0 .. 1}

\* a session on an image whose segmentation, any class buffer, is cached
InitSelect ==
    LET s == SaveState(<<>>, -1, BlankCanvas(SelWidth, 2), 1)
    IN  /\ currentTool = "click"
        /\ brushSize = DefaultBrushSize
        /\ isDrawing = FALSE
        /\ lastPoint = NoPoint
        /\ lassoPoints = <<>>
        /\ isLassoActive = FALSE
        /\ history = s.history
        /\ historyStep = s.historyStep
        /\ saveCalls = 1
        /\ undoCalls = 0
        /\ maskCanvas = BlankCanvas(SelWidth, 2)
        /\ currentImage = 1
        /\ model = "loaded"
        /\ isProcessing = FALSE
        /\ isShowingPreview = FALSE
        /\ \E b \in ClassBuffers : cachedSegmentation = [image |-> 1, imageData |-> b]
        /\ previewTimeout = NoPoint
        /\ previewMask = NoRaster
        /\ previewReq = NoReq
        /\ clickReq = NoReq
        /\ lastImageData = NoRaster
        /\ lastSegmentation = NoSeg
        /\ modelCalls = 1
        /\ loads = 1
        /\ errorsShown = 0
        /\ NoFill

\* hovering over the image: createClickMask applied to the cached class buffer
NextSelect ==
    /\ \/ \E pt \in SelPoints : MouseMove(pt)
       \/ MouseLeave
       \/ ShowClickPreview
    /\ UNCHANGED <<fillVars, download, timerVars>>

SpecSelect == InitSelect /\ [][NextSelect]_vars

\* --------------------------------------------- _findConnectedComponent
\* createClickMask calls _findConnectedComponent: a class buffer, an in-bounds
\* seed of non-zero class, the seed's class as target
InitFill ==
    /\ InitTools
    /\ InitLoaded
    /\ fillData \in ClassBuffers
    /\ \E pt \in SelPoints :
           /\ fillSeed = <<pt[1] \div 2, pt[2] \div 2>>
           /\ fillTarget =
                 fillData.data[(pt[2] \div 2) * fillData.width + (pt[1] \div 2)][1]
    /\ fillTarget # 0
    /\ fillQueue = <<fillSeed>>
    /\ fillVisited = {}
    /\ fillMask = {}
    /\ classReads = [p \in PixelsOf(fillData) |-> 0]
    /\ fillOrder = <<>>
    /\ download = NoRaster
    /\ timers = {}
    /\ timerId = 0

\* the orders in which the four neighbours may be appended: as offsets, the
\* order of the code: right, left, below, above
CodeOrder == <<(<<1, 0>>), (<<-1, 0>>), (<<0, 1>>), (<<0, -1>>)>>
NeighbourOrders == {CodeOrder, <<(<<0, -1>>), (<<0, 1>>), (<<-1, 0>>), (<<1, 0>>)>>}

\* the neighbours of (x, y) in the order o
Neighbours(x, y, o) == [k \in 1 .. 4 |-> <<x + o[k][1], y + o[k][2]>>]

\* q with the pixel c placed before the first pixel that is not below it
RECURSIVE Insert(_, _)
Insert(q, c) ==
    IF q = <<>> THEN <<c>>
    ELSE IF c[1] < Head(q)[1] \/ (c[1] = Head(q)[1] /\ c[2] <= Head(q)[2])
         THEN <<c>> \o q
         ELSE <<Head(q)>> \o Insert(Tail(q), c)

\* the pixels of q in increasing order
RECURSIVE Sorted(_)
Sorted(q) == IF q = <<>> THEN <<>> ELSE Insert(Sorted(Tail(q)), Head(q))

\* the pending pixels as the loop keeps them: in the order of arrival, or, where
\* any pending pixel may be taken next and the arrival order says nothing,
\* in increasing order
Pending(q, sorted) == IF sorted THEN Sorted(q) ELSE q

\* a pass of the loop that gives up the pending pixels at a pixel of another class
FillStepAtGivingUp(i, o, sorted) ==
    /\ fillQueue # <<>>
    /\ i \in 1 .. Len(fillQueue)
    /\ LET x == fillQueue[i][1]
           y == fillQueue[i][2]
           rest == SubSeq(fillQueue, 1, i - 1) \o SubSeq(fillQueue, i + 1, Len(fillQueue))
           idx == y * fillData.width + x
       IN  IF x < 0 \/ x >= fillData.width \/ y < 0 \/ y >= fillData.height
              THEN /\ fillQueue' = Pending(rest, sorted)
                   /\ UNCHANGED <<fillVisited, fillMask, classReads, fillOrder>>
              ELSE IF idx \in fillVisited
              THEN /\ fillQueue' = Pending(rest, sorted)
                   /\ UNCHANGED <<fillVisited, fillMask, classReads, fillOrder>>
              ELSE /\ fillVisited' = fillVisited \cup {idx}
                   /\ classReads' = [classReads EXCEPT ![idx] = @ + 1]
                   /\ fillOrder' = Append(fillOrder, idx)
                   /\ IF fillData.data[idx][1] = fillTarget
                      THEN /\ fillMask' = fillMask \cup {idx}
                           /\ fillQueue' = Pending(rest \o Neighbours(x, y, o), sorted)
                      ELSE /\ fillQueue' = <<>>
                           /\ UNCHANGED fillMask
    /\ UNCHANGED <<fillData, fillSeed, fillTarget, toolVars, appVars, download, timerVars>>

\* a pass of the loop that does not remember the pixels of another class
FillStepAtForgetful(i, o, sorted) ==
    /\ fillQueue # <<>>
    /\ i \in 1 .. Len(fillQueue)
    /\ LET x == fillQueue[i][1]
           y == fillQueue[i][2]
           rest == SubSeq(fillQueue, 1, i - 1) \o SubSeq(fillQueue, i + 1, Len(fillQueue))
           idx == y * fillData.width + x
       IN  IF x < 0 \/ x >= fillData.width \/ y < 0 \/ y >= fillData.height
              THEN /\ fillQueue' = Pending(rest, sorted)
                   /\ UNCHANGED <<fillVisited, fillMask, classReads, fillOrder>>
              ELSE IF idx \in fillVisited
              THEN /\ fillQueue' = Pending(rest, sorted)
                   /\ UNCHANGED <<fillVisited, fillMask, classReads, fillOrder>>
              ELSE /\ classReads' = [classReads EXCEPT ![idx] = @ + 1]
                   /\ fillOrder' = Append(fillOrder, idx)
                   /\ IF fillData.data[idx][1] = fillTarget
                      THEN /\ fillVisited' = fillVisited \cup {idx}
                           /\ fillMask' = fillMask \cup {idx}
                           /\ fillQueue' = Pending(rest \o Neighbours(x, y, o), sorted)
                      ELSE /\ fillQueue' = Pending(rest, sorted)
                           /\ UNCHANGED <<fillVisited, fillMask>>
    /\ UNCHANGED <<fillData, fillSeed, fillTarget, toolVars, appVars, download, timerVars>>

\* one pass of the while loop of _findConnectedComponent, taking the i-th
\* pending pixel and appending the neighbours in the order o
FillStepAt(i, o, sorted) ==
    /\ fillQueue # <<>>
    /\ i \in 1 .. Len(fillQueue)
    /\ LET x == fillQueue[i][1]
           y == fillQueue[i][2]
           rest == SubSeq(fillQueue, 1, i - 1) \o SubSeq(fillQueue, i + 1, Len(fillQueue))
           idx == y * fillData.width + x
       IN  IF x < 0 \/ x >= fillData.width \/ y < 0 \/ y >= fillData.height
              THEN /\ fillQueue' = Pending(rest, sorted)
                   /\ UNCHANGED <<fillVisited, fillMask, classReads, fillOrder>>
              ELSE IF idx \in fillVisited
              THEN /\ fillQueue' = Pending(rest, sorted)
                   /\ UNCHANGED <<fillVisited, fillMask, classReads, fillOrder>>
              ELSE /\ fillVisited' = fillVisited \cup {idx}
                   /\ classReads' = [classReads EXCEPT ![idx] = @ + 1]
                   /\ fillOrder' = Append(fillOrder, idx)
                   /\ IF fillData.data[idx][1] = fillTarget
                      THEN /\ fillMask' = fillMask \cup {idx}
                           /\ fillQueue' = Pending(rest \o Neighbours(x, y, o), sorted)
                      ELSE /\ fillQueue' = Pending(rest, sorted)
                           /\ UNCHANGED fillMask
    /\ UNCHANGED <<fillData, fillSeed, fillTarget, toolVars, appVars, download, timerVars>>

\* the loop as written: queue.shift() takes the oldest pending pixel
FillStep == FillStepAt(1, CodeOrder, FALSE)

\* the loop with the pending pixel and the neighbour order left open
FillStepAnyOrder ==
    \E i \in 1 .. Len(fillQueue), o \in NeighbourOrders : FillStepAt(i, o, TRUE)

NextFill == FillStep
SpecFill == InitFill /\ [][NextFill]_vars /\ WF_vars(FillStep)

\* the loop compares a class with the target only: the buffers of two object
\* classes give every split of the pixels into target and other
InitFillAnyOrder == InitFill /\ \A p \in PixelsOf(fillData) : fillData.data[p][1] # 0
NextFillAnyOrder == FillStepAnyOrder
SpecFillAnyOrder == InitFillAnyOrder /\ [][NextFillAnyOrder]_vars

\* ------------------------------------------------------- invert and export
\* handleInvert with a drawImage of the overlay in place of clearRect and
\* putImageData
InvertMaskDrawn(canvas) ==
    LET currentMask == GetMaskData(canvas)
        f(p) == <<255 - currentMask.data[p][1], 255 - currentMask.data[p][1],
                  255 - currentMask.data[p][1], currentMask.data[p][4]>>
    IN  DrawImageSourceOver(PutImageData(ConvertToGreenOverlay(MapPixels(currentMask, f))),
                            canvas)

\* the mask canvas after handleInvert: getMaskData, 255 - value in the colour
\* channels, clearRect, convertToGreenOverlay, putImageData
InvertMask(canvas) ==
    LET currentMask == GetMaskData(canvas)
        f(p) == <<255 - currentMask.data[p][1], 255 - currentMask.data[p][1],
                  255 - currentMask.data[p][1], currentMask.data[p][4]>>
    IN  PutImageData(ConvertToGreenOverlay(MapPixels(currentMask, f)))

\* handleInvert()
HandleInvert ==
    /\ currentImage # NoImage
    /\ maskCanvas' = InvertMask(maskCanvas)
    /\ DoSaveState(InvertMask(maskCanvas))
    /\ UNCHANGED <<currentTool, brushSize, isDrawing, lastPoint, lassoPoints,
                   isLassoActive, undoCalls>>
    /\ UNCHANGED appVars

\* a download that exports the overlay as it is displayed
CreateBinaryMaskOverlay(maskData) == ConvertToGreenOverlay(maskData)

\* createBinaryMask(maskData)
CreateBinaryMask(maskData) ==
    LET f(p) == IF maskData.data[p][1] > 128 THEN <<255, 255, 255, 255>>
                ELSE <<0, 0, 0, 255>>
    IN  MapPixels(maskData, f)

\* handleDownload(): the binary mask put on a canvas of the mask's size and
\* saved as an image file
HandleDownload ==
    /\ IF currentImage = NoImage
       THEN /\ errorsShown' = errorsShown + 1
            /\ UNCHANGED download
       ELSE /\ download' = GetImageData(PutImageData(CreateBinaryMask(GetMaskData(maskCanvas))))
            /\ UNCHANGED errorsShown
    /\ UNCHANGED <<currentImage, model, isProcessing, isShowingPreview, cachedSegmentation,
                   previewTimeout, previewMask, previewReq, clickReq, lastImageData,
                   lastSegmentation, modelCalls, loads>>
    /\ UNCHANGED toolVars

\* the tools used in SpecInvert
InvertTools == {"click", "brush"}

\* one image: brush and erase strokes, clicks on the cached segmentation, clear
\* and invert
NextInvert ==
    /\ \/ \E t \in InvertTools : HandleToolChange(t) /\ UNCHANGED download
       \/ \E pt \in Points : MouseDown(pt) /\ UNCHANGED download
       \/ MouseUp /\ UNCHANGED download
       \/ \E pt \in Points : HandleCanvasClick(pt) /\ UNCHANGED download
       \/ ClickSegmentResolved /\ UNCHANGED download
       \/ HandleClear /\ UNCHANGED download
       \/ HandleInvert /\ UNCHANGED download
       \/ HandleDownload
    /\ saveCalls' <= MaxInvertSaves
    /\ UNCHANGED <<fillVars, timerVars>>

SpecInvert == InitSession /\ [][NextInvert]_vars

\* -------------------------------------------------------------- refine
\* the pixels with a full 3x3 neighbourhood, and the outermost ring
Interior(r) ==
    {p \in PixelsOf(r) : /\ p % r.width >= 1 /\ p % r.width <= r.width - 2
                         /\ p \div r.width >= 1 /\ p \div r.width <= r.height - 2}
Border(r) == PixelsOf(r) \ Interior(r)

\* the 3x3 neighbourhood of an interior pixel p, p included
Nbhd(r, p) == {p + dy * r.width + dx : dx \in -1 .. 1, dy \in -1 .. 1}

\* the pixel px with its colour channels set to v
WithColour(px, v) == <<v, v, v, px[4]>>

\* refineMaskEdges, dilation: the copy of data with every interior pixel that
\* is not white and has a white neighbour made white
Dilated(data) ==
    LET f(p) == IF /\ p \in Interior(data)
                   /\ ~(data.data[p][1] > 128)
                   /\ \E q \in Nbhd(data, p) : data.data[q][1] > 128
                THEN WithColour(data.data[p], 255)
                ELSE data.data[p]
    IN  MapPixels(data, f)

\* an erosion that looks for black neighbours in the mask of before the dilation
ClosedReadingOriginal(data) ==
    LET dilated == Dilated(data)
        f(p) == IF p \notin Interior(data) \/ dilated.data[p][1] < 128 THEN data.data[p]
                ELSE IF \E q \in Nbhd(data, p) : data.data[q][1] < 128
                THEN WithColour(data.data[p], 0)
                ELSE WithColour(data.data[p], dilated.data[p][1])
    IN  MapPixels(data, f)

\* an erosion that also clears the outermost ring
ClosedClearingBorder(data) ==
    LET dilated == Dilated(data)
        f(p) == IF p \notin Interior(data) THEN WithColour(data.data[p], 0)
                ELSE IF dilated.data[p][1] < 128 THEN data.data[p]
                ELSE IF \E q \in Nbhd(data, p) : dilated.data[q][1] < 128
                THEN WithColour(data.data[p], 0)
                ELSE WithColour(data.data[p], dilated.data[p][1])
    IN  MapPixels(data, f)

\* refineMaskEdges, one iteration: data after the erosion of the dilated copy
Closed(data) ==
    LET dilated == Dilated(data)
        f(p) == IF p \notin Interior(data) \/ dilated.data[p][1] < 128 THEN data.data[p]
                ELSE IF \E q \in Nbhd(data, p) : dilated.data[q][1] < 128
                THEN WithColour(data.data[p], 0)
                ELSE WithColour(data.data[p], dilated.data[p][1])
    IN  MapPixels(data, f)

\* refineMaskEdges(maskData, iterations)
RECURSIVE RefineMaskEdges(_, _)
RefineMaskEdges(maskData, iterations) ==
    IF iterations <= 0 THEN maskData
    ELSE RefineMaskEdges(Closed(maskData), iterations - 1)

\* refineMaskEdgesEnhanced, erosion: the copy of data with every interior pixel
\* that is not black and has a black neighbour made black
Eroded(data) ==
    LET f(p) == IF /\ p \in Interior(data)
                   /\ ~(data.data[p][1] < 128)
                   /\ \E q \in Nbhd(data, p) : data.data[q][1] < 128
                THEN WithColour(data.data[p], 0)
                ELSE data.data[p]
    IN  MapPixels(data, f)

\* refineMaskEdgesEnhanced, one iteration: data after the dilation of the
\* eroded copy
Opened(data) ==
    LET eroded == Eroded(data)
        f(p) == IF p \notin Interior(data) \/ eroded.data[p][1] > 128 THEN data.data[p]
                ELSE IF \E q \in Nbhd(data, p) : eroded.data[q][1] > 128
                THEN WithColour(data.data[p], 255)
                ELSE WithColour(data.data[p], eroded.data[p][1])
    IN  MapPixels(data, f)

\* refineMaskEdgesEnhanced(maskData, iterations)
RECURSIVE RefineMaskEdgesEnhanced(_, _)
RefineMaskEdgesEnhanced(maskData, iterations) ==
    IF iterations <= 0 THEN maskData
    ELSE RefineMaskEdgesEnhanced(Opened(maskData), iterations - 1)

\* handleRefine() of js/app.js: refineMaskEdges with its default of one
\* iteration, the result put on the mask canvas as it is
HandleRefine ==
    /\ currentImage # NoImage
    /\ maskCanvas' = PutImageData(RefineMaskEdges(GetMaskData(maskCanvas), 1))
    /\ DoSaveState(maskCanvas')
    /\ UNCHANGED <<currentTool, brushSize, isDrawing, lastPoint, lassoPoints,
                   isLassoActive, undoCalls>>
    /\ UNCHANGED appVars

\* handleRefine() of the enhanced application: refineMaskEdgesEnhanced with its
\* default of two iterations, the result put on the cleared canvas as overlay
HandleRefineEnhanced ==
    /\ currentImage # NoImage
    /\ maskCanvas' = PutImageData(ConvertToGreenOverlay(
                         RefineMaskEdgesEnhanced(GetMaskData(maskCanvas), 2)))
    /\ DoSaveState(maskCanvas')
    /\ UNCHANGED <<currentTool, brushSize, isDrawing, lastPoint, lassoPoints,
                   isLassoActive, undoCalls>>
    /\ UNCHANGED appVars

\* the object mask of w x h pixels that selects the pixels S
ObjectMask(w, h, S) ==
    [width |-> w, height |-> h,
     data |-> [p \in 0 .. (w * h - 1) |-> IF p \in S THEN White ELSE Transparent]]

\* the masks refined: every mask of SmallWidth x 3 pixels, and the masks of
\* LargeSide x LargeSide pixels with one pixel selected or one pixel unselected
RefineMasks ==
    {ObjectMask(SmallWidth, 3, S) : S \in SUBSET (0 .. (SmallWidth * 3 - 1))}
    \cup {ObjectMask(LargeSide, LargeSide, {c}) : c \in 0 .. (LargeSide * LargeSide - 1)}
    \cup {ObjectMask(LargeSide, LargeSide, (0 .. (LargeSide * LargeSide - 1)) \ {c}) :
              c \in 0 .. (LargeSide * LargeSide - 1)}

\* a session whose blank mask canvas has received one of the masks through
\* applySegmentation
InitRefine ==
    /\ InitLoaded
    /\ NoFill
    /\ currentTool = "click"
    /\ brushSize = DefaultBrushSize
    /\ isDrawing = FALSE
    /\ lastPoint = NoPoint
    /\ lassoPoints = <<>>
    /\ isLassoActive = FALSE
    /\ saveCalls = 2
    /\ undoCalls = 0
    /\ \E img \in RefineMasks :
          LET blank == BlankCanvas(img.width, img.height)
              drawn == DrawImageLighter(PutImageData(ConvertToGreenOverlay(img)), blank)
              first == SaveState(<<>>, -1, blank, 1)
              s == SaveState(first.history, first.historyStep, drawn, 2)
          IN  /\ maskCanvas = drawn
              /\ history = s.history
              /\ historyStep = s.historyStep

NextRefine ==
    /\ \/ HandleRefine
       \/ HandleRefineEnhanced
    /\ saveCalls' <= MaxRefineSaves
    /\ UNCHANGED <<fillVars, download, timerVars>>

SpecRefine == InitRefine /\ [][NextRefine]_vars

\* ------------------------------------------------- drawing and erasing
\* the object mask a click applies in SpecPaint: the first pixel
PaintMasks == {ObjectMask(LassoSide, LassoSide, {0})}

\* the tools that draw
PaintTools == {"brush", "erase", "lasso", "lasso-erase"}

\* the outline drawn with the lasso tools: the triangle of the three corners,
\* clicked in this order
PaintOutline == <<(<<0, 0>>), (<<2 * LassoSide, 0>>), (<<0, 2 * LassoSide>>)>>

\* every tool on the square canvas of SpecLasso: strokes, lasso fills and
\* additive applySegmentation
NextPaint ==
    /\ \/ \E pt \in LassoCorners : HandlePointerDown(pt)
       \/ \E pt \in LassoCorners : HandlePointerMove(pt)
       \/ HandlePointerUp
       \/ HandleDoubleClick
       \/ \E t \in PaintTools : SetTool(t)
       \/ \E img \in PaintMasks : ApplySegmentation(img, TRUE)
    /\ saveCalls' <= MaxPaintSaves
    /\ Len(lassoPoints') <= Len(PaintOutline)
    /\ lassoPoints' = SubSeq(PaintOutline, 1, Len(lassoPoints'))
    /\ UNCHANGED <<appVars, fillVars, download, timerVars>>

SpecPaint == InitLasso /\ [][NextPaint]_vars

\* --------------------------------------- click with the class-wide mask
\* createClickMask of the second segmentation module: every pixel of the mask
\* opaque, white where the class is not background
CreateClickMaskByClass(img, pt) ==
    LET x == pt[1] \div 2
        y == pt[2] \div 2
        clickedClass == img.data[y * img.width + x][1]
        background(p) == OpaqueBlack
        object(p) == IF img.data[p][1] > 0 THEN White ELSE OpaqueBlack
    IN  IF clickedClass = 0 THEN MapPixels(img, background)
        ELSE MapPixels(img, object)

\* handleCanvasClick(e) with the segmentation cached and createClickMask of
\* the second segmentation module
HandleCanvasClickByClass(pt) ==
    LET maskData == GetMaskData(maskCanvas)
        pixelIndex == (pt[2] \div 2) * maskData.width + (pt[1] \div 2)
        isInSelection == maskData.data[pixelIndex][1] > 128
        objectMask == CreateClickMaskByClass(cachedSegmentation.imageData, pt)
        hasSelection == \E p \in PixelsOf(objectMask) : objectMask.data[p][1] > 0
    IN  /\ currentImage # NoImage
        /\ modelLoaded
        /\ ~isProcessing
        /\ currentTool = "click"
        /\ cachedSegmentation # NoSeg
        /\ previewMask' = NoRaster
        /\ isProcessing' = FALSE
        /\ UNCHANGED <<currentImage, model, isShowingPreview, previewTimeout, previewReq,
                       lastImageData, lastSegmentation, loads, errorsShown, clickReq,
                       modelCalls, cachedSegmentation>>
        /\ IF ~hasSelection THEN UNCHANGED toolVars
           ELSE IF isInSelection THEN SubtractMaskFromSelection(objectMask)
           ELSE ApplySegmentation(objectMask, TRUE)

\* a session on the first image after its segmentation has been cached
InitSubtract ==
    /\ InitTools
    /\ NoFill
    /\ currentImage = 1
    /\ model = "loaded"
    /\ isProcessing = FALSE
    /\ isShowingPreview = FALSE
    /\ cachedSegmentation = SegmentationResult(1)
    /\ previewTimeout = NoPoint
    /\ previewMask = NoRaster
    /\ previewReq = NoReq
    /\ clickReq = NoReq
    /\ lastImageData = ImageRaster(1)
    /\ lastSegmentation = SegmentationResult(1)
    /\ modelCalls = 1
    /\ loads = 1
    /\ errorsShown = 0

\* brush strokes and clicks on the segmented image
NextSubtract ==
    /\ \/ \E t \in AppTools : HandleToolChange(t)
       \/ \E pt \in Points : MouseDown(pt)
       \/ MouseUp
       \/ \E pt \in Points : HandleCanvasClickByClass(pt)
       \/ HandleUndo
    /\ saveCalls' <= MaxSubtractSaves
    /\ undoCalls' <= MaxAppUndos
    /\ UNCHANGED <<fillVars, download, timerVars>>

SpecSubtract == InitSubtract /\ [][NextSubtract]_vars

\* ------------------------------------------- click of the enhanced app
\* subtractMaskFromSelection(objectMask) of the enhanced application: the
\* object mask converted to the green overlay, drawn with destination-out
SubtractMaskFromSelectionEnhanced(objectMask) ==
    LET cut == DrawImageDestinationOut(PutImageData(ConvertToGreenOverlay(objectMask)),
                                       maskCanvas)
    IN  /\ maskCanvas' = cut
        /\ DoSaveState(cut)
        /\ UNCHANGED <<currentTool, brushSize, isDrawing, lastPoint, lassoPoints,
                       isLassoActive, undoCalls>>

\* handleCanvasClick(e) of the enhanced application with the segmentation
\* cached; isCtrlPressed is the state of the Ctrl key at the click
HandleCanvasClickEnhanced(pt, isCtrlPressed) ==
    LET objectMask == CreateClickMask(cachedSegmentation.imageData, pt)
        hasSelection == \E p \in PixelsOf(objectMask) : objectMask.data[p][1] > 0
    IN  /\ currentImage # NoImage
        /\ modelLoaded
        /\ ~isProcessing
        /\ currentTool = "click"
        /\ cachedSegmentation # NoSeg
        /\ previewMask' = NoRaster
        /\ isProcessing' = FALSE
        /\ UNCHANGED <<currentImage, model, isShowingPreview, previewTimeout, previewReq,
                       lastImageData, lastSegmentation, loads, errorsShown, clickReq,
                       modelCalls, cachedSegmentation>>
        /\ IF ~hasSelection THEN UNCHANGED toolVars
           ELSE IF isCtrlPressed THEN SubtractMaskFromSelectionEnhanced(objectMask)
           ELSE ApplySegmentation(objectMask, TRUE)

\* brush strokes, clicks and Ctrl+clicks on the segmented image
NextCtrl ==
    /\ \/ \E t \in AppTools : HandleToolChange(t)
       \/ \E pt \in Points : MouseDown(pt)
       \/ MouseUp
       \/ \E pt \in Points, ctrl \in BOOLEAN : HandleCanvasClickEnhanced(pt, ctrl)
       \/ HandleUndo
    /\ saveCalls' <= MaxSubtractSaves
    /\ undoCalls' <= MaxAppUndos
    /\ UNCHANGED <<fillVars, download, timerVars>>

SpecCtrl == InitSubtract /\ [][NextCtrl]_vars

\* ---------------------------------------------------- a whole session
\* the class buffer of the image edited in SpecEdit: an object in the first
\* column, background elsewhere
EditBuffer ==
    [width |-> SelWidth, height |-> 2,
     data |-> [p \in 0 .. (2 * SelWidth - 1) |->
                  IF p % SelWidth = 0 THEN <<15, 15, 15, 255>> ELSE <<0, 0, 0, 255>>]]

\* a session on an image of SelWidth x 2 pixels whose segmentation is cached
InitEdit ==
    LET s == SaveState(<<>>, -1, BlankCanvas(SelWidth, 2), 1)
    IN  /\ currentTool = "click"
        /\ brushSize = DefaultBrushSize
        /\ isDrawing = FALSE
        /\ lastPoint = NoPoint
        /\ lassoPoints = <<>>
        /\ isLassoActive = FALSE
        /\ history = s.history
        /\ historyStep = s.historyStep
        /\ saveCalls = 1
        /\ undoCalls = 0
        /\ maskCanvas = BlankCanvas(SelWidth, 2)
        /\ currentImage = 1
        /\ model = "loaded"
        /\ isProcessing = FALSE
        /\ isShowingPreview = FALSE
        /\ cachedSegmentation = [image |-> 1, imageData |-> EditBuffer]
        /\ previewTimeout = NoPoint
        /\ previewMask = NoRaster
        /\ previewReq = NoReq
        /\ clickReq = NoReq
        /\ lastImageData = NoRaster
        /\ lastSegmentation = NoSeg
        /\ modelCalls = 1
        /\ loads = 1
        /\ errorsShown = 0
        /\ NoFill

\* every way the application changes the mask: strokes, lasso fills, clicks,
\* clear, invert, refine, undo and redo
NextEdit ==
    /\ \/ \E t \in Tools : HandleToolChange(t)
       \/ \E pt \in LassoCorners : MouseDown(pt)
       \/ MouseUp
       \/ HandleDoubleClick /\ UNCHANGED appVars
       \/ \E pt \in SelPoints : HandleCanvasClick(pt)
       \/ HandleClear
       \/ HandleInvert
       \/ HandleRefine
       \/ HandleUndo
       \/ HandleRedo
    /\ saveCalls' <= MaxEditSaves
    /\ undoCalls' <= MaxAppUndos
    /\ Len(lassoPoints') <= Len(PaintOutline)
    /\ lassoPoints' = SubSeq(PaintOutline, 1, Len(lassoPoints'))
    /\ UNCHANGED <<fillVars, download, timerVars>>

SpecEdit == InitEdit /\ [][NextEdit]_vars

\* ------------------------------------------------------ the debounce timer
\* a handleCanvasMouseMove that sets its timeout without clearing the last one
HandleCanvasMouseMoveStacking(pt) ==
    /\ IF currentImage = NoImage \/ ~modelLoaded \/ isProcessing \/ currentTool # "click"
       THEN UNCHANGED timerVars
       ELSE /\ timers' = timers \cup {[id |-> timerId + 1, point |-> pt]}
            /\ timerId' = timerId + 1
    /\ UNCHANGED appVars

\* handleCanvasMouseMove(e), with the timeouts of the page: clearTimeout drops
\* the timeout whose identifier the field holds, if it is still pending, and
\* setTimeout adds one under a new identifier
HandleCanvasMouseMoveTimer(pt) ==
    /\ IF currentImage = NoImage \/ ~modelLoaded \/ isProcessing \/ currentTool # "click"
       THEN UNCHANGED timerVars
       ELSE /\ timers' = {t \in timers : t.id # timerId}
                            \cup {[id |-> timerId + 1, point |-> pt]}
            /\ timerId' = timerId + 1
    /\ UNCHANGED appVars

\* handleCanvasMouseLeave(), with the timeouts of the page
HandleCanvasMouseLeaveTimer ==
    /\ timers' = IF timerId # 0 THEN {t \in timers : t.id # timerId} ELSE timers
    /\ UNCHANGED timerId
    /\ previewMask' = NoRaster
    /\ UNCHANGED <<currentImage, model, isProcessing, isShowingPreview,
                   cachedSegmentation, previewTimeout, previewReq, clickReq,
                   lastImageData, lastSegmentation, modelCalls, loads, errorsShown>>

\* a pending timeout expires: its callback calls showClickPreview(e)
PreviewTimerFires ==
    \E t \in timers :
        /\ timers' = timers \ {t}
        /\ UNCHANGED <<timerId, previewTimeout>>
        /\ ShowClickPreviewAt(t.point)

\* the tools used in SpecDebounce
DebounceTools == {"click", "brush"}

\* the pointer over the canvas of a loaded image: moves, leaves, expiring
\* timeouts, previews and clicks
NextDebounce ==
    /\ \/ \E t \in DebounceTools : HandleToolChange(t) /\ UNCHANGED timerVars
       \/ \E pt \in Points :
              currentImage # NoImage /\ HandleCanvasMouseMoveTimer(pt) /\ HandlePointerMove(pt)
       \/ currentImage # NoImage /\ HandleCanvasMouseLeaveTimer /\ HandlePointerUp
       \/ PreviewTimerFires
       \/ PreviewSegmentResolved /\ UNCHANGED timerVars
       \/ PreviewSegmentFailed /\ UNCHANGED timerVars
       \/ \E pt \in Points : HandleCanvasClick(pt) /\ UNCHANGED timerVars
       \/ ClickSegmentResolved /\ UNCHANGED timerVars
    /\ timerId' <= MaxTimers
    /\ saveCalls' <= MaxClickSaves
    /\ UNCHANGED <<fillVars, download>>

SpecDebounce == InitSession /\ [][NextDebounce]_vars

\* ------------------------------------------------- the segmentation cache
\* the images of CacheWidth x 1 pixels whose pixels are black or grey, numbered
\* by their pixels read as binary digits
CacheImages == 0 .. (2 ^ CacheWidth - 1)

\* the pixels of such an image as getImageData reads them from the image canvas
CacheRaster(i) ==
    [width |-> CacheWidth, height |-> 1,
     data |-> [p \in 0 .. (CacheWidth - 1) |->
                  IF (i \div (2 ^ p)) % 2 = 1 THEN <<10, 10, 10, 255>> ELSE OpaqueBlack]]

\* what the model and _processSegmentationResult give for it: class 15 on the
\* grey pixels, background on the black ones
CacheResult(i) ==
    [image |-> i,
     imageData |->
        [width |-> CacheWidth, height |-> 1,
         data |-> [p \in 0 .. (CacheWidth - 1) |->
                      IF (i \div (2 ^ p)) % 2 = 1 THEN <<15, 15, 15, 255>>
                      ELSE OpaqueBlack]]]

\* another image is drawn on the image canvas
DrawImage(i) ==
    /\ currentImage' = i
    /\ cachedSegmentation' = NoSeg
    /\ UNCHANGED <<model, isProcessing, isShowingPreview, previewTimeout, previewMask,
                   previewReq, clickReq, lastImageData, lastSegmentation, modelCalls,
                   loads, errorsShown>>

\* segmentImage(canvas) run to its return, the model answering; the caller
\* keeps what it returns in cachedSegmentation
SegmentImage ==
    /\ IF lastImageData # NoRaster /\ ImageDataEqual(CacheRaster(currentImage), lastImageData)
       THEN /\ cachedSegmentation' = lastSegmentation
            /\ UNCHANGED <<lastImageData, lastSegmentation, modelCalls>>
       ELSE /\ lastImageData' = CacheRaster(currentImage)
            /\ lastSegmentation' = CacheResult(currentImage)
            /\ cachedSegmentation' = CacheResult(currentImage)
            /\ modelCalls' = modelCalls + 1
    /\ UNCHANGED <<currentImage, model, isProcessing, isShowingPreview, previewTimeout,
                   previewMask, previewReq, clickReq, loads, errorsShown>>

\* an ImageSegmentation that has segmented nothing, any image on the canvas
InitCache ==
    /\ InitTools
    /\ NoFill
    /\ currentImage \in CacheImages
    /\ model = "loaded"
    /\ isProcessing = FALSE
    /\ isShowingPreview = FALSE
    /\ cachedSegmentation = NoSeg
    /\ previewTimeout = NoPoint
    /\ previewMask = NoRaster
    /\ previewReq = NoReq
    /\ clickReq = NoReq
    /\ lastImageData = NoRaster
    /\ lastSegmentation = NoSeg
    /\ modelCalls = 0
    /\ loads = 1
    /\ errorsShown = 0

NextCache ==
    /\ \/ \E i \in CacheImages : DrawImage(i)
       \/ SegmentImage
    /\ modelCalls' <= MaxModelCalls
    /\ UNCHANGED <<toolVars, fillVars, download, timerVars>>

SpecCache == InitCache /\ [][NextCache]_vars

\* ------------------------------------------------- clicks that settle
\* the promise of model.segment awaited by a click settles
ClickSettles ==
    /\ ClickSegmentFailed \/ ClickSegmentResolved
    /\ UNCHANGED <<fillVars, download, timerVars>>

\* clicks, strokes and undo on one image; a click or a stroke starts only
\* while fewer than MaxClickSaves snapshots have been recorded, a click only
\* while fewer than MaxErrors errors have been shown
NextSettle ==
    /\ \/ \E t \in AppTools : HandleToolChange(t)
       \/ \E pt \in Points : MouseDown(pt) /\ saveCalls < MaxClickSaves /\ ~isDrawing
       \/ MouseUp
       \/ \E pt \in Points :
              HandleCanvasClick(pt) /\ saveCalls < MaxClickSaves /\ errorsShown < MaxErrors
       \/ ClickSegmentResolved
       \/ ClickSegmentFailed
       \/ HandleUndo /\ undoCalls < MaxAppUndos
    /\ UNCHANGED <<fillVars, download, timerVars>>

\* every model.segment promise a click waits for settles
SpecSettle == InitSession /\ [][NextSettle]_vars /\ WF_vars(ClickSettles)

\* ---------------------------------------------------------- the brush size
\* the arguments of setBrushSize explored: every integer from BrushMargin
\* below MinBrushSize, which includes 0 and negative values, to BrushMargin
\* above MaxBrushSize
BrushArgs == (MinBrushSize - BrushMargin) .. (MaxBrushSize + BrushMargin)

\* the size slider and the tool buttons of one session
NextBrush ==
    /\ \/ \E n \in BrushArgs : SetBrushSize(n)
       \/ \E t \in Tools : SetTool(t)
    /\ UNCHANGED <<appVars, fillVars, download, timerVars>>

SpecBrush == InitSession /\ [][NextBrush]_vars

\* ------------------------------------------------------------- properties
\* the serials of the snapshots of a history
Serials(h) == {h[i].serial : i \in 1 .. Len(h)}
\* the pixel index under a point
PixelAt(pt) == (pt[2] \div 2) * Width + (pt[1] \div 2)
\* the canvas shows something that the snapshot at the cursor does not hold
Uncommitted == maskCanvas # PutImageData(history[historyStep + 1].data)

\* C1: in every state reached by saveState, undo, redo, clearMask and
\* applySegmentation from a new MaskTools, the history is non-empty, the cursor
\* indexes one of its snapshots and it holds at most maxHistorySize snapshots.
HistoryBounds ==
    /\ Len(history) >= 1
    /\ 0 <= historyStep
    /\ historyStep < Len(history)
    /\ Len(history) <= maxHistorySize

\* a full history that has evicted, with the cursor moved off the tip by an undo
HistoryBoundsWitness ==
    /\ saveCalls > maxHistorySize
    /\ Len(history) = maxHistorySize
    /\ undoCalls > 0
    /\ canRedo

\* C2: after N saveState calls on a new MaskTools with no undo among them, the
\* history holds min(N + 1, maxHistorySize) snapshots (saveCalls counts the
\* constructor's call too, so N = saveCalls - 1).
HistoryLength ==
    undoCalls = 0 => Len(history) = Min((saveCalls - 1) + 1, maxHistorySize)

\* more commits than the history can hold, none undone
HistoryLengthWitness ==
    /\ undoCalls = 0
    /\ saveCalls - 1 > maxHistorySize
    /\ Len(history) = maxHistorySize

\* undo() then redo() from the current state: redo succeeds and the canvas and
\* the cursor are back where they were
RoundTrip ==
    LET u == undo(history, historyStep, maskCanvas)
        r == redo(history, u.historyStep, u.canvas)
    IN  u.ok => /\ r.ok
                /\ r.canvas = maskCanvas
                /\ r.historyStep = historyStep

\* C3: in the state a commit leaves, if undo() returns true then redo() called
\* right after it returns true and the mask canvas and historyStep are those of
\* before the undo.
UndoRedoRoundTrip == [][saveCalls' > saveCalls => RoundTrip']_vars

\* a painted canvas at the tip of an untruncated history, after an undo and a
\* redo
UndoRedoRoundTripWitness ==
    /\ undoCalls > 0
    /\ historyStep > 0
    /\ ~canRedo
    /\ saveCalls = Len(history)
    /\ ~Uncommitted
    /\ maskCanvas # BlankCanvas(Width, Height)

\* C4: a saveState call made with snapshots beyond the cursor leaves the
\* snapshots up to the cursor in order, followed by the new one at the tip, with
\* nothing to redo; and no step ever brings back a snapshot that has left the
\* history.
CommitDiscardsRedo ==
    [][/\ (saveCalls' = saveCalls + 1 /\ canRedo) =>
            /\ Len(history') = historyStep + 2
            /\ SubSeq(history', 1, historyStep + 1) = SubSeq(history, 1, historyStep + 1)
            /\ history'[Len(history')] = Snapshot(maskCanvas', saveCalls')
            /\ historyStep' = Len(history') - 1
            /\ ~canRedo'
       /\ \A i \in 1 .. Len(history') :
            \/ history'[i].serial > saveCalls
            \/ \E j \in 1 .. Len(history) : history[j] = history'[i]
      ]_vars

\* two undos, then a commit that discarded two snapshots
CommitDiscardsRedoWitness ==
    /\ undoCalls = 2
    /\ saveCalls <= maxHistorySize
    /\ ~canRedo
    /\ history[Len(history)].serial = Len(history) + 2
    /\ Serials(history) = (1 .. Len(history) - 1) \cup {Len(history) + 2}

\* C5: undo() with the cursor at 0 and redo() with the cursor at the tip return
\* false and leave the mask canvas, the history and historyStep as they were.
NothingToUndoOrRedo ==
    [][/\ (Undo /\ historyStep = 0) =>
            /\ ~undo(history, historyStep, maskCanvas).ok
            /\ UNCHANGED <<maskCanvas, history, historyStep>>
       /\ (Redo /\ ~canRedo) =>
            /\ ~redo(history, historyStep, maskCanvas).ok
            /\ UNCHANGED <<maskCanvas, history, historyStep>>
      ]_vars

\* a stroke in progress over a history of one snapshot: the canvas differs from
\* the only snapshot, and there is nothing to undo or to redo
NothingToUndoOrRedoWitness ==
    /\ historyStep = 0
    /\ ~canRedo
    /\ isDrawing
    /\ Uncommitted

\* C6: a saveState call with maxHistorySize snapshots and the cursor at the tip
\* evicts the oldest snapshot only, keeps the others in order, puts the new
\* snapshot last and leaves historyStep on it.
EvictsOldest ==
    [][(saveCalls' = saveCalls + 1 /\ Len(history) = maxHistorySize /\ ~canRedo) =>
            /\ Len(history') = maxHistorySize
            /\ SubSeq(history', 1, maxHistorySize - 1) = Tail(history)
            /\ history'[maxHistorySize] = Snapshot(maskCanvas', saveCalls')
            /\ historyStep' = maxHistorySize - 1
      ]_vars

\* the constructor's snapshot has been evicted and the cursor is on the newest
EvictsOldestWitness ==
    /\ saveCalls = maxHistorySize + 1
    /\ Len(history) = maxHistorySize
    /\ history[1].serial = 2
    /\ history[maxHistorySize].serial = saveCalls
    /\ historyStep = maxHistorySize - 1

\* C7: model.segment is called at most once for a loaded image, whatever the
\* interleaving of hover previews and clicks.
SegmentedOncePerImage == modelCalls <= 1

\* C8: cachedSegmentation is null or the result computed from the image that
\* is loaded.
CacheIsOfCurrentImage ==
    cachedSegmentation = NoSeg \/ cachedSegmentation.image = currentImage

\* C9: with the brush or the eraser, pointer-down and pointer-move paint the
\* mask at once and record nothing; the pointer-up (or mouseleave) that ends the
\* stroke records one snapshot, of the canvas as the stroke left it, and ends
\* the stroke; a pointer-up with no stroke in progress records nothing.
OneSnapshotPerStroke ==
    [][/\ \A pt \in Points :
            (HandlePointerDown(pt) \/ HandlePointerMove(pt)) =>
                UNCHANGED <<history, historyStep, saveCalls>>
       /\ \A pt \in Points :
            (HandlePointerDown(pt) /\ IsBrushTool(currentTool)) =>
                /\ isDrawing'
                /\ (PixelAt(pt) \in Selected(maskCanvas')) = (currentTool = "brush")
       /\ \A pt \in Points :
            (HandlePointerMove(pt) /\ IsBrushTool(currentTool) /\ isDrawing) =>
                (PixelAt(pt) \in Selected(maskCanvas')) = (currentTool = "brush")
       /\ (HandlePointerUp /\ IsBrushTool(currentTool) /\ isDrawing) =>
            /\ saveCalls' = saveCalls + 1
            /\ history'[historyStep' + 1] = Snapshot(maskCanvas, saveCalls')
            /\ ~canRedo'
            /\ ~isDrawing'
            /\ lastPoint' = NoPoint
       /\ (HandlePointerUp /\ ~isDrawing) =>
            UNCHANGED <<history, historyStep, saveCalls, maskCanvas>>
      ]_vars

\* one finished brush stroke: painted, recorded once
OneSnapshotPerStrokeWitness ==
    /\ IsBrushTool(currentTool)
    /\ ~isDrawing
    /\ lastPoint = NoPoint
    /\ saveCalls = 2
    /\ Len(history) = 2
    /\ history[2].data # history[1].data
    /\ ~Uncommitted

\* C10: every setTool call leaves no stroke and no lasso in progress.
SetToolClearsGesture ==
    [][(\E t \in Tools : SetTool(t)) =>
            /\ ~isDrawing'
            /\ lastPoint' = NoPoint
            /\ ~isLassoActive'
            /\ lassoPoints' = <<>>
      ]_vars

StrictlyInside(r, p, pts) ==
    /\ SumWinding(Centre(r, p), pts, 1) # 0
    /\ \A i \in 1 .. Len(pts) : ~OnEdge(Centre(r, p), pts[i], pts[(i % Len(pts)) + 1])
StrictlyOutside(r, p, pts) == p \notin PolygonCover(r, pts)

\* C12: a double-click with a lasso tool and a polygon of at least 3 vertices
\* in progress fills the polygon (its inside becomes selected with lasso,
\* unselected with lasso-erase, its outside is untouched), records one snapshot,
\* of the filled canvas, and leaves no polygon in progress.
LassoCompletes ==
    [][(/\ HandleDoubleClick
        /\ IsLassoTool(currentTool)
        /\ isLassoActive
        /\ Len(lassoPoints) >= 3) =>
            /\ ~isLassoActive'
            /\ lassoPoints' = <<>>
            /\ saveCalls' = saveCalls + 1
            /\ history'[historyStep' + 1] = Snapshot(maskCanvas', saveCalls')
            /\ ~canRedo'
            /\ \A p \in PixelsOf(maskCanvas) :
                /\ StrictlyInside(maskCanvas, p, lassoPoints) =>
                      (p \in Selected(maskCanvas')) = (currentTool = "lasso")
                /\ StrictlyOutside(maskCanvas, p, lassoPoints) =>
                      maskCanvas'.data[p] = maskCanvas.data[p]
      ]_vars

\* a lasso that selected pixels and left others alone, then a lasso-erase that
\* removed them: two snapshots after the constructor's
LassoCompletesWitness ==
    /\ Len(history) = 3
    /\ ~isLassoActive
    /\ ~Uncommitted
    /\ Selected(PutImageData(history[2].data)) # {}
    /\ Selected(PutImageData(history[2].data)) # PixelsOf(maskCanvas)
    /\ Selected(maskCanvas) = {}

\* C13: a double-click with a lasso tool and a polygon of fewer than 3 vertices
\* in progress changes neither the mask canvas nor the history nor historyStep
\* and clears the polygon.
ShortLassoCancels ==
    [][(/\ HandleDoubleClick
        /\ IsLassoTool(currentTool)
        /\ isLassoActive
        /\ Len(lassoPoints) < 3) =>
            /\ UNCHANGED <<maskCanvas, history, historyStep, saveCalls>>
            /\ ~isLassoActive'
            /\ lassoPoints' = <<>>
      ]_vars

\* a polygon of two vertices in progress over a mask that has a selection
ShortLassoCancelsWitness ==
    /\ IsLassoTool(currentTool)
    /\ isLassoActive
    /\ Len(lassoPoints) = 2
    /\ Selected(maskCanvas) # {}

\* the pixels createClickMask selects for a click at pt on segmentation seg
ClickRegion(seg, pt) ==
    LET objectMask == CreateClickMask(seg.imageData, pt)
    IN  {p \in PixelsOf(objectMask) : objectMask.data[p][1] > 0}

\* a click at pt completing with segmentation seg: with a non-empty region, the
\* region leaves the selection if the clicked pixel was selected and joins it
\* otherwise, and one snapshot of the result is recorded
ClickToggles(seg, pt) ==
    ClickRegion(seg, pt) # {} =>
        /\ Selected(maskCanvas') =
              IF PixelAt(pt) \in Selected(maskCanvas)
              THEN Selected(maskCanvas) \ ClickRegion(seg, pt)
              ELSE Selected(maskCanvas) \cup ClickRegion(seg, pt)
        /\ saveCalls' = saveCalls + 1
        /\ history'[historyStep' + 1] = Snapshot(maskCanvas', saveCalls')
        /\ ~canRedo'

\* a click at pt completing with segmentation seg: with an empty region, nothing
\* changes
EmptyClickIsNoOp(seg, pt) ==
    ClickRegion(seg, pt) = {} =>
        UNCHANGED <<maskCanvas, history, historyStep, saveCalls>>

ClickTwiceTogglesOff ==
    /\ Len(history) = saveCalls
    /\ saveCalls = 2 => Selected(maskCanvas) = ClickRegion(SegmentationResult(1), <<1, 1>>)
    /\ saveCalls = 3 =>
          /\ Selected(maskCanvas) = {}
          /\ Selected(PutImageData(history[2].data)) =
                ClickRegion(SegmentationResult(1), <<1, 1>>)

\* two clicks on the object have completed
ClickTwiceTogglesOffWitness ==
    /\ saveCalls = 3
    /\ ~isProcessing
    /\ Selected(PutImageData(history[2].data)) # {}
    /\ Selected(maskCanvas) = {}

PreviewLeavesMask ==
    [][(ShowClickPreview \/ PreviewSegmentResolved \/ PreviewSegmentFailed) =>
            UNCHANGED <<maskCanvas, history, historyStep>>
      ]_vars

\* a preview is shown over a mask that has a recorded selection
PreviewLeavesMaskWitness ==
    /\ previewMask # NoRaster
    /\ ~isShowingPreview
    /\ saveCalls = 2
    /\ ~Uncommitted
    /\ Selected(maskCanvas) # {}

PreviewAndCommitIndependent ==
    [][/\ \A pt \in Points :
            (HandleCanvasClick(pt) /\ isShowingPreview) =>
                (isProcessing' \/ cachedSegmentation' # NoSeg)
       /\ (ShowClickPreview /\ isProcessing /\ ~isShowingPreview) =>
                (isShowingPreview' \/ previewMask' # NoRaster)
      ]_vars

\* the class of the pixel under pt in a class buffer
ClassUnder(img, pt) == img.data[(pt[2] \div 2) * img.width + (pt[1] \div 2)][1]

\* C20: for every class buffer and every seed inside it whose class is 0, the
\* mask createClickMask returns selects no pixel (every pixel has r = 0).
BackgroundClickSelectsNothing ==
    [][(/\ ShowClickPreview
        /\ previewTimeout # NoPoint
        /\ ~isProcessing
        /\ ~isShowingPreview
        /\ ClassUnder(cachedSegmentation.imageData, previewTimeout) = 0) =>
            /\ previewMask' = CreateClickMask(cachedSegmentation.imageData, previewTimeout)
            /\ \A p \in PixelsOf(previewMask') : previewMask'.data[p][1] = 0
      ]_vars

\* the mask computed for a background seed of a buffer that has object pixels
BackgroundClickSelectsNothingWitness ==
    /\ previewMask # NoRaster
    /\ \A p \in PixelsOf(previewMask) : previewMask.data[p] = OpaqueBlack
    /\ \E p \in PixelsOf(cachedSegmentation.imageData) :
           cachedSegmentation.imageData.data[p][1] # 0
    /\ \E p \in PixelsOf(cachedSegmentation.imageData) :
           cachedSegmentation.imageData.data[p][1] = 0

\* pixels p and q of img are 4-adjacent
Adjacent4(img, p, q) ==
    LET dx == (p % img.width) - (q % img.width)
        dy == (p \div img.width) - (q \div img.width)
    IN  dx * dx + dy * dy = 1

\* the least set holding S and closed under 4-adjacent pixels of class cls
RECURSIVE Reach(_, _, _)
Reach(img, S, cls) ==
    LET next == S \cup {q \in PixelsOf(img) :
                           /\ img.data[q][1] = cls
                           /\ \E p \in S : Adjacent4(img, p, q)}
    IN  IF next = S THEN S ELSE Reach(img, next, cls)

\* the reference 4-connected component of the pixel under pt
Component(img, pt) ==
    Reach(img, {(pt[2] \div 2) * img.width + (pt[1] \div 2)}, ClassUnder(img, pt))

\* the pixels a mask of createClickMask selects
MaskSelection(mask) == {p \in PixelsOf(mask) : mask.data[p][1] > 0}

\* showClickPreview computes createClickMask on the cached buffer in this step
PreviewComputes ==
    /\ ShowClickPreview
    /\ previewTimeout # NoPoint
    /\ ~isProcessing
    /\ ~isShowingPreview
    /\ cachedSegmentation # NoSeg

\* C21: every pixel createClickMask selects has the seed's class and belongs to
\* the seed's 4-connected component of that class.
RegionClosure ==
    [][PreviewComputes =>
            \A p \in MaskSelection(previewMask') :
                /\ cachedSegmentation.imageData.data[p][1] =
                      ClassUnder(cachedSegmentation.imageData, previewTimeout)
                /\ p \in Component(cachedSegmentation.imageData, previewTimeout)
      ]_vars

\* a computed mask that leaves out a pixel of the selected class: the buffer
\* has that class in two separate components
RegionClosureWitness ==
    /\ previewMask # NoRaster
    /\ \E p, q \in PixelsOf(previewMask) :
           /\ p \in MaskSelection(previewMask)
           /\ q \notin MaskSelection(previewMask)
           /\ cachedSegmentation.imageData.data[p][1] =
                 cachedSegmentation.imageData.data[q][1]

\* C22: for a seed of non-zero class createClickMask selects exactly the
\* reference 4-connected component of the seed, the seed included.
RegionMaximal ==
    [][(PreviewComputes /\ ClassUnder(cachedSegmentation.imageData, previewTimeout) # 0) =>
            /\ MaskSelection(previewMask') =
                  Component(cachedSegmentation.imageData, previewTimeout)
            /\ MaskSelection(previewMask') # {}
      ]_vars

\* a computed mask that selects a component bending over both rows, next to a
\* pixel of another class
RegionMaximalWitness ==
    /\ previewMask # NoRaster
    /\ Cardinality(MaskSelection(previewMask)) = 3
    /\ \A p \in PixelsOf(previewMask) :
           p \notin MaskSelection(previewMask) =>
               cachedSegmentation.imageData.data[p][1] # 0

\* Manhattan distance of pixel p of the buffer from the seed
SeedDistance(p) ==
    LET dx == (p % fillData.width) - fillSeed[1]
        dy == (p \div fillData.width) - fillSeed[2]
    IN  (IF dx < 0 THEN -dx ELSE dx) + (IF dy < 0 THEN -dy ELSE dy)

\* the call of _findConnectedComponent has returned
FillDone == fillData # NoRaster /\ fillQueue = <<>>

\* C23: whatever pending pixel each pass takes and in whatever order the
\* neighbours are appended, the fill ends with the set the code's own order
\* gives for the same class buffer and seed.
FillOrderIndependent ==
    FillDone =>
        fillMask = FindConnectedComponent(fillData, <<fillSeed>>, {}, {}, fillTarget)

\* a finished fill of several pixels that read a pixel farther from the seed
\* before a nearer one, which the first-in first-out order never does
FillOrderIndependentWitness ==
    /\ FillDone
    /\ Cardinality(fillMask) >= 3
    /\ \E a, b \in 1 .. Len(fillOrder) :
           a < b /\ SeedDistance(fillOrder[a]) > SeedDistance(fillOrder[b])

\* the pixel the next pass of the loop takes is outside the buffer
HeadOutOfBounds ==
    /\ fillQueue # <<>>
    /\ \/ Head(fillQueue)[1] < 0 \/ Head(fillQueue)[1] >= fillData.width
       \/ Head(fillQueue)[2] < 0 \/ Head(fillQueue)[2] >= fillData.height

\* the pixel the next pass of the loop takes is in the visited set
HeadVisited ==
    /\ fillQueue # <<>>
    /\ ~HeadOutOfBounds
    /\ (Head(fillQueue)[2] * fillData.width + Head(fillQueue)[1]) \in fillVisited

\* C24: the fill terminates, never reads the class of a pixel twice, and a pass
\* that takes an out-of-bounds or an already visited pixel only drops it: no
\* class is read and nothing is marked, written or appended.
FillTerminates ==
    /\ <>FillDone
    /\ [](\A p \in DOMAIN classReads : classReads[p] <= 1)
    /\ [][(FillStep /\ (HeadOutOfBounds \/ HeadVisited)) =>
              /\ fillQueue' = Tail(fillQueue)
              /\ UNCHANGED <<classReads, fillVisited, fillMask, fillOrder>>]_vars

\* a finished fill over a region of three or more pixels, where pixels were
\* appended by several neighbours, that read every class exactly once
FillTerminatesWitness ==
    /\ FillDone
    /\ Cardinality(fillMask) >= 3
    /\ \A p \in PixelsOf(fillData) : classReads[p] = 1


\* the pixels of the mask canvas
AllPixels == PixelsOf(maskCanvas)

\* C25: one handleInvert turns the selection getMaskData reads into its
\* complement, and a second handleInvert gives back the selection of before.
InvertComplements ==
    [][HandleInvert =>
          /\ Selected(maskCanvas') = AllPixels \ Selected(maskCanvas)
          /\ Selected(InvertMask(maskCanvas')) = Selected(maskCanvas)
      ]_vars

\* a mask with one pixel selected and one not, inverted twice in a row: the
\* three newest snapshots are the second inverse, the inverse and the original
InvertComplementsWitness ==
    /\ historyStep >= 2
    /\ historyStep = Len(history) - 1
    /\ Selected(maskCanvas) \notin {{}, AllPixels}
    /\ maskCanvas = InvertMask(PutImageData(history[historyStep].data))
    /\ PutImageData(history[historyStep].data) =
          InvertMask(PutImageData(history[historyStep - 1].data))

\* C26: the exported raster has the size of the mask, every pixel of it is
\* opaque black or opaque white, and it is white exactly where getMaskData
\* reports the pixel selected.
ExportIsBinary ==
    [][(HandleDownload /\ currentImage # NoImage) =>
          /\ download'.width = maskCanvas.width
          /\ download'.height = maskCanvas.height
          /\ \A p \in PixelsOf(download') :
                /\ download'.data[p] \in {<<0, 0, 0, 255>>, <<255, 255, 255, 255>>}
                /\ download'.data[p] = <<255, 255, 255, 255>> <=> p \in Selected(maskCanvas)
      ]_vars

\* an export of a mask with a selected and an unselected pixel
ExportIsBinaryWitness ==
    /\ download # NoRaster
    /\ \E p, q \in PixelsOf(download) :
           /\ download.data[p] = <<255, 255, 255, 255>>
           /\ download.data[q] = <<0, 0, 0, 255>>

\* the pixels at two or more pixels from every edge
DeepInterior(r) ==
    {p \in PixelsOf(r) : /\ p % r.width >= 2 /\ p % r.width <= r.width - 3
                         /\ p \div r.width >= 2 /\ p \div r.width <= r.height - 3}

\* C27 as stated: refine with one iteration unselects a lone selected pixel that
\* is neither on nor next to the border.
LonePixelRemoved ==
    [][HandleRefine =>
          \A c \in DeepInterior(maskCanvas) :
              Selected(maskCanvas) = {c} => c \notin Selected(maskCanvas')
      ]_vars

\* C27 amended: refine with one iteration keeps a lone selected pixel that is
\* neither on nor next to the border, and selects nothing else.
LonePixelKept ==
    [][HandleRefine =>
          \A c \in DeepInterior(maskCanvas) :
              Selected(maskCanvas) = {c} =>
                  /\ Selected(maskCanvas') = {c}
                  /\ Selected(PutImageData(
                         RefineMaskEdges(GetMaskData(maskCanvas), 1))) = {c}
      ]_vars

\* the canvas handleRefine of js/app.js leaves behind (opaque pixels only) for a
\* mask of one selected pixel away from the border
LonePixelKeptWitness ==
    /\ \E c \in DeepInterior(maskCanvas) : Selected(maskCanvas) = {c}
    /\ \A p \in PixelsOf(maskCanvas) : maskCanvas.data[p][4] = 255
    /\ historyStep >= 2
    /\ Selected(PutImageData(history[historyStep].data)) = Selected(maskCanvas)

\* C28: the enhanced refine selects an unselected pixel away from the border
\* whose eight neighbours are all selected.
HoleFilled ==
    [][HandleRefineEnhanced =>
          \A c \in DeepInterior(maskCanvas) :
              (/\ c \notin Selected(maskCanvas)
               /\ Nbhd(maskCanvas, c) \ {c} \subseteq Selected(maskCanvas)) =>
                  c \in Selected(maskCanvas')
      ]_vars

\* C29: both refines, and refineMaskEdges and refineMaskEdgesEnhanced for every
\* iteration count, leave the selection value of every pixel of the outermost
\* ring as it was.
RefineKeepsBorder ==
    [][(HandleRefine \/ HandleRefineEnhanced) =>
          /\ \A p \in Border(maskCanvas) :
                p \in Selected(maskCanvas') <=> p \in Selected(maskCanvas)
          /\ \A n \in 1 .. MaxIterations : \A p \in Border(maskCanvas) :
                /\ RefineMaskEdges(GetMaskData(maskCanvas), n).data[p] =
                      GetMaskData(maskCanvas).data[p]
                /\ RefineMaskEdgesEnhanced(GetMaskData(maskCanvas), n).data[p] =
                      GetMaskData(maskCanvas).data[p]
      ]_vars

\* a refined mask whose ring has selected and unselected pixels and whose
\* interior the refine changed
RefineKeepsBorderWitness ==
    /\ historyStep >= 2
    /\ \E p, q \in Border(maskCanvas) :
           p \in Selected(maskCanvas) /\ q \notin Selected(maskCanvas)
    /\ Selected(PutImageData(history[historyStep].data)) # Selected(maskCanvas)

\* a pointer event or double click reaches MaskTools
PointerStep ==
    \/ \E pt \in LassoCorners : HandlePointerDown(pt) \/ HandlePointerMove(pt)
    \/ HandlePointerUp
    \/ HandleDoubleClick

\* C30: a stroke segment of the brush, a fill of the lasso and an additive
\* applySegmentation keep every selected pixel selected; a stroke segment of
\* the eraser and a fill of the lasso-erase keep every unselected pixel
\* unselected.
PaintIsMonotone ==
    [][/\ \/ Selected(maskCanvas) \subseteq Selected(maskCanvas')
          \/ ~(currentTool \in {"brush", "lasso"} /\ PointerStep)
       /\ \/ Selected(maskCanvas) \subseteq Selected(maskCanvas')
          \/ ~(\E img \in PaintMasks : ApplySegmentation(img, TRUE))
       /\ \/ Selected(maskCanvas') \subseteq Selected(maskCanvas)
          \/ ~(currentTool \in {"erase", "lasso-erase"} /\ PointerStep)
      ]_vars

\* a partly selected mask that an additive operation extended, though not to
\* every pixel (the two newest snapshots), and that an erase stroke in progress
\* has reduced since
PaintIsMonotoneWitness ==
    /\ historyStep >= 2
    /\ historyStep = Len(history) - 1
    /\ currentTool = "erase"
    /\ isDrawing
    /\ LET a == Selected(PutImageData(history[historyStep].data))
           b == Selected(PutImageData(history[historyStep + 1].data))
       IN  /\ a # {} /\ a \subseteq b /\ a # b
           /\ b # PixelsOf(maskCanvas)
           /\ Selected(maskCanvas) \subseteq b /\ Selected(maskCanvas) # b

\* C31: a click that toggles a region off leaves the selection value of every
\* pixel outside the region as it was.
SubtractKeepsOutside ==
    [][\A pt \in Points :
          (/\ HandleCanvasClickByClass(pt)
           /\ PixelAt(pt) \in Selected(maskCanvas)) =>
              \A p \in PixelsOf(maskCanvas) \
                       MaskSelection(CreateClickMaskByClass(cachedSegmentation.imageData, pt)) :
                  p \in Selected(maskCanvas') <=> p \in Selected(maskCanvas)
      ]_vars

\* C32: after a Ctrl+click that subtracts a non-empty region, getMaskData
\* reports every pixel of the region unselected.
CtrlClickUnselects ==
    [][\A pt \in Points :
          HandleCanvasClickEnhanced(pt, TRUE) =>
              \A p \in MaskSelection(CreateClickMask(cachedSegmentation.imageData, pt)) :
                  p \notin Selected(maskCanvas')
      ]_vars

\* C33: a snapshot keeps its pixels for as long as it is in the history: no
\* step changes the content of a snapshot that is in the history before and
\* after it.
SnapshotsAreCopies ==
    [][\A i \in 1 .. Len(history), j \in 1 .. Len(history') :
          history[i].serial = history'[j].serial =>
              history[i].data = history'[j].data
      ]_vars

\* three snapshots of pairwise different content, the newest undone
SnapshotsAreCopiesWitness ==
    /\ Len(history) >= 3
    /\ historyStep < Len(history) - 1
    /\ \A i, j \in 1 .. Len(history) : i # j => history[i].data # history[j].data
    /\ GetImageData(maskCanvas) = history[historyStep + 1].data

\* C35: whenever no brush or erase stroke is in progress (a pointer-up finds
\* no stroke to end and to record), the mask canvas holds the content of the
\* snapshot history[historyStep].
CanvasIsCommitted ==
    (IsBrushTool(currentTool) /\ isDrawing)
        \/ GetImageData(maskCanvas) = history[historyStep + 1].data

\* C34: at most one preview timeout is pending at any time; when one expires
\* (the only way a preview computation starts) none is left pending, so the
\* moves before it start no second computation; and after the pointer leaves
\* the canvas none is pending.
OnePendingTimer ==
    /\ [](Cardinality(timers) <= 1)
    /\ [][/\ PreviewTimerFires => timers' = {}
          /\ HandleCanvasMouseLeaveTimer => timers' = {}
         ]_vars

\* a second move arrives while the timeout of the first is pending
OnePendingTimerWitness ==
    /\ timerId >= 2
    /\ \E t \in timers : t.id = timerId
    /\ currentTool = "click"
    /\ ~isProcessing

\* C36: a click whose segmentation request was made before the last
\* setupCanvas changes neither the mask canvas nor the history of the
\* MaskTools of the image loaded since, when its segmentation arrives.
StaleClickNotApplied ==
    [][(ClickSegmentResolved /\ clickReq.load # loads) =>
            UNCHANGED <<maskCanvas, history, historyStep>>
      ]_vars

\* C37: what segmentImage returns is the segmentation of an image whose
\* pixels are those on the canvas: never the result computed for a canvas
\* whose pixel content differs.
CacheReturnsOwnResult ==
    cachedSegmentation # NoSeg =>
        CacheRaster(cachedSegmentation.image) = CacheRaster(currentImage)

\* C38: a click that sets isProcessing is followed by a state where
\* isProcessing is false again, whether its segmentation gives a region, gives
\* none or fails; and while isProcessing is true no step starts another
\* click-select computation: the request in flight stays the same until it
\* settles, and settling resets isProcessing.
ProcessingEnds ==
    /\ isProcessing ~> ~isProcessing
    /\ [][isProcessing =>
             \/ clickReq' = clickReq /\ isProcessing'
             \/ clickReq' = NoReq /\ ~isProcessing'
         ]_vars

\* a click is waiting for its segmentation, after a stroke has been recorded
ProcessingEndsWitness ==
    /\ isProcessing
    /\ clickReq # NoReq
    /\ saveCalls >= 2

\* C39: after setupCanvas the mask canvas is transparent, the history holds
\* one snapshot, of the transparent mask, with historyStep 0, the tool is
\* click, and no stroke and no lasso polygon is in progress.
SetupCanvasStartsAfresh ==
    [][\A img \in Images :
          SetupCanvas(img) =>
              /\ maskCanvas' = BlankCanvas(Width, Height)
              /\ Selected(maskCanvas') = {}
              /\ Len(history') = 1
              /\ history'[1].data = GetImageData(BlankCanvas(Width, Height))
              /\ historyStep' = 0
              /\ currentTool' = "click"
              /\ ~isDrawing'
              /\ lastPoint' = NoPoint
              /\ ~isLassoActive'
              /\ lassoPoints' = <<>>
      ]_vars

\* a second image has just been loaded, after the first was segmented
SetupCanvasStartsAfreshWitness ==
    /\ loads = 2
    /\ currentImage = 2
    /\ lastSegmentation.image = 1
    /\ saveCalls = 1
    /\ Len(history) = 1

\* C40: after a setBrushSize call with any integer argument, zero and
\* negative ones included, brushSize is at least 1, and lies between 5 and 200.
BrushSizeClamped ==
    [][\A n \in BrushArgs :
          SetBrushSize(n) =>
              /\ brushSize' >= 1
              /\ brushSize' \in 5 .. 200
      ]_vars

\* the size after a call with an argument of 5 or less
BrushSizeClampedWitness ==
    /\ brushSize = 5
    /\ -1 \in BrushArgs
    /\ 0 \in BrushArgs

====
